---- MODULE Spec2Model ----
(***************************************************************************)
(* Model of the meeting-minutes backend: the job store (db.py), the        *)
(* background transcript task (main.py, transcript_processor.py) and the   *)
(* submit / poll endpoints (main.py).                                      *)
(*                                                                         *)
(* Conventions.                                                            *)
(*  - A nullable value (Python None, SQL NULL) is <<>>, a present value v   *)
(*    is <<v>>.                                                            *)
(*  - A JSON/Python value is a record tagged by "kind": a dict, an empty   *)
(*    dict, a list, or a str.  A str carries the value its text denotes    *)
(*    as JSON (<<v>>), or <<>> when its text is not JSON at all.           *)
(*  - A store call either takes effect and returns, or raises without      *)
(*    effect (aiosqlite raising in connect / execute / commit).            *)
(***************************************************************************)
EXTENDS Integers, Sequences, FiniteSets, TLC

VARIABLES
    processes,    \* table summary_processes: meeting_id -> row
    transcripts,  \* table transcript_chunks: meeting_id -> row
    now,          \* the clock read by datetime.utcnow()
    env,          \* credentials present in the process environment
    task,         \* per process id: the running process_transcript_background
    lastPoll,     \* per process id: the last response of get_summary
    terminalSeen, \* per process id: the job statuses answered with 200 or 400
    apiResponse,  \* the last response of process_transcript_api
    mockAudio,    \* the MockAudioService object, its files, its last call
    audio,        \* the AudioService object and the files it wrote
    recorder,     \* per session and source: the _record_audio thread
    stopCall,     \* per session: the running AudioService.stop_recording
    summarized    \* the last summarize() call: its input and its results

jobVars == <<processes, transcripts, now, env, task, lastPoll, terminalSeen,
             apiResponse>>

serviceVars == <<mockAudio, audio, recorder, stopCall, summarized>>

vars == <<processes, transcripts, now, env, task, lastPoll, terminalSeen,
          apiResponse, mockAudio, audio, recorder, stopCall, summarized>>

-----------------------------------------------------------------------------
(* Bounds *)

MaxTime == 2

MaxTextLen == 3

MaxChunkSize == 3

ProcIds == {"p1", "p2"}

-----------------------------------------------------------------------------
(* Nullable values and Python truthiness *)

None == <<>>

Some(v) == <<v>>

IsNone(o) == o = <<>>

Val(o) == o[1]

\* A message (str(e), an error text) is the sequence of the pieces an
\* f-string joins; the empty message is <<>>.

-----------------------------------------------------------------------------
(* JSON values: json.dumps / json.loads *)

JEmptyDict == [kind |-> "emptydict"]

\* a non-empty list
JList == [kind |-> "list"]

JDict(d) == [kind |-> "dict", val |-> d]

\* a str whose text is not valid JSON
JGarbage == [kind |-> "str", json |-> <<>>]

\* a non-empty dict with an int key, e.g. {1: "x"}, and the dict its JSON
\* text decodes to, {"1": "x"}: JSON object keys are strings
JDictIntKeys == [kind |-> "dict_int_keys"]

JDictStrKeys == [kind |-> "dict_str_keys"]

\* the value the JSON text of v stands for
JsonValue(v) == IF v = JDictIntKeys THEN JDictStrKeys ELSE v

\* json.dumps(v): the str whose text is the JSON encoding of v
JsonDumps(v) == [kind |-> "str", json |-> <<JsonValue(v)>>]

\* json.loads(s) raises JSONDecodeError when the text of s is not JSON
JsonLoadsRaises(s) == s.json = <<>>

JsonLoads(s) == s.json[1]

IsStr(v) == v.kind = "str"

IsDict(v) ==
    v.kind \in {"dict", "emptydict", "dict_int_keys", "dict_str_keys"}

\* bool(v) for a JSON value: empty containers are falsy
\* (a str produced by json.dumps is never empty)
Truthy(v) ==
    v.kind \in {"dict", "str", "list", "dict_int_keys", "dict_str_keys"}

-----------------------------------------------------------------------------
(* StructuredSummary: SummaryResponse, and the aggregate built by the task *)

SectionOrder ==
    <<"SectionSummary", "CriticalDeadlines", "KeyItemsDecisions",
      "ImmediateActionItems", "NextSteps", "OtherImportantPoints",
      "ClosingRemarks">>

SectionKeys == {SectionOrder[n] : n \in DOMAIN SectionOrder}

SectionTitle(key) ==
    CASE key = "SectionSummary" -> "Section Summary"
      [] key = "CriticalDeadlines" -> "Critical Deadlines"
      [] key = "KeyItemsDecisions" -> "Key Items & Decisions"
      [] key = "ImmediateActionItems" -> "Immediate Action Items"
      [] key = "NextSteps" -> "Next Steps"
      [] key = "OtherImportantPoints" -> "Other Important Points"
      [] key = "ClosingRemarks" -> "Closing Remarks"

\* A Python dict of the summary shape: its keys after "MeetingName" in
\* insertion order, and the section stored under each key.
SummaryDict(name, title, blocks) ==
    [MeetingName |-> name,
     order |-> SectionOrder,
     sections |-> [key \in SectionKeys |->
                     [title |-> title[key], blocks |-> blocks[key]]]]

\* final_summary as initialised by process_transcript_background
EmptySummary ==
    SummaryDict("", [key \in SectionKeys |-> SectionTitle(key)],
                [key \in SectionKeys |-> <<>>])

NoBlocks == [key \in SectionKeys |-> <<>>]

\* titles as a model may phrase them (a Section's title is free text)
ModelTitle == [key \in SectionKeys |-> "from model"]

\* The SummaryResponse values a model call may return
ChunkSummaries ==
    { SummaryDict("Standup", ModelTitle,
                  [NoBlocks EXCEPT !["SectionSummary"] = <<"b1">>,
                                   !["CriticalDeadlines"] = <<"b2", "b3">>]),
      SummaryDict("", ModelTitle,
                  [NoBlocks EXCEPT !["SectionSummary"] = <<"b4">>,
                                   !["NextSteps"] = <<"b1">>]),
      SummaryDict("Retro", ModelTitle, NoBlocks) }

\* Mutant: a chunk's blocks replace the blocks collected so far
AggregateChunkReplacesBlocks(final, json_str) ==
    IF JsonLoadsRaises(json_str) THEN final
    ELSE LET d == JsonLoads(json_str).val
             name == IF d.MeetingName # "" THEN d.MeetingName
                     ELSE final.MeetingName
         IN [final EXCEPT
               !.MeetingName = name,
               !.sections = [key \in DOMAIN final.sections |->
                   [final.sections[key] EXCEPT
                       !.blocks = d.sections[key].blocks]]]

\* Mutant: the chunk's MeetingName is taken even when it is empty
AggregateChunkOverwritesName(final, json_str) ==
    IF JsonLoadsRaises(json_str) THEN final
    ELSE LET d == JsonLoads(json_str).val
         IN [final EXCEPT
               !.MeetingName = d.MeetingName,
               !.sections = [key \in DOMAIN final.sections |->
                   [final.sections[key] EXCEPT
                       !.blocks = @ \o d.sections[key].blocks]]]

\* Mutant: the chunk's section (title and blocks) is merged into the
\* aggregate, so the title of the chunk result replaces the constant one
AggregateChunkCopiesTitle(final, json_str) ==
    IF JsonLoadsRaises(json_str) THEN final
    ELSE LET d == JsonLoads(json_str).val
             name == IF d.MeetingName # "" THEN d.MeetingName
                     ELSE final.MeetingName
         IN [final EXCEPT
               !.MeetingName = name,
               !.sections = [key \in DOMAIN final.sections |->
                   [title |-> d.sections[key].title,
                    blocks |-> final.sections[key].blocks
                               \o d.sections[key].blocks]]]

\* final_summary after one iteration of the loop over all_json_data
AggregateChunk(final, json_str) ==
    IF JsonLoadsRaises(json_str) THEN final
    ELSE LET json_dict == JsonLoads(json_str) IN
         IF json_dict.kind # "dict" THEN final
         ELSE LET d == json_dict.val
                  name == IF d.MeetingName # "" THEN d.MeetingName
                          ELSE final.MeetingName
              IN [final EXCEPT
                    !.MeetingName = name,
                    !.sections = [key \in DOMAIN final.sections |->
                        IF key \in DOMAIN d.sections
                        THEN [final.sections[key] EXCEPT
                                !.blocks = @ \o d.sections[key].blocks]
                        ELSE final.sections[key]]]

-----------------------------------------------------------------------------
(* Chunking and parameter validation *)

MinStepRepair == 100

Min(a, b) == IF a <= b THEN a ELSE b

Max(a, b) == IF a >= b THEN a ELSE b

\* Mutant: the comprehension stops at the last full window, so a shorter
\* final window is dropped
RECURSIVE WindowsDropsShortTail(_, _, _, _)
WindowsDropsShortTail(text, chunk_size, step, start) ==
    IF start + chunk_size > Len(text) THEN <<>>
    ELSE <<SubSeq(text, start + 1, start + chunk_size)>>
         \o WindowsDropsShortTail(text, chunk_size, step, start + step)

\* [text[i:i+chunk_size] for i in range(start, len(text), step)], step > 0
RECURSIVE Windows(_, _, _, _)
Windows(text, chunk_size, step, start) ==
    IF start >= Len(text) THEN <<>>
    ELSE <<SubSeq(text, start + 1, Min(start + chunk_size, Len(text)))>>
         \o Windows(text, chunk_size, step, start + step)

\* TranscriptProcessor.process_transcript: the step actually used
RepairedStep(chunk_size, overlap) ==
    IF chunk_size - overlap <= 0
    THEN chunk_size - Max(0, chunk_size - MinStepRepair)
    ELSE chunk_size - overlap

SplitChunks(text, chunk_size, overlap) ==
    Windows(text, chunk_size, RepairedStep(chunk_size, overlap), 0)

\* SummaryProcessor.process_transcript: the exception raised by validation,
\* or None
ValidationError(text, chunk_size, overlap) ==
    IF text = <<>> THEN Some(<<"Empty transcript text provided">>)
    ELSE IF chunk_size <= 0 THEN Some(<<"chunk_size must be positive">>)
    ELSE IF overlap < 0 THEN Some(<<"overlap must be non-negative">>)
    ELSE None

\* Mutant: an overlap that is not smaller than chunk_size is passed on as is
RepairedOverlapKept(chunk_size, overlap) == overlap

\* SummaryProcessor.process_transcript: overlap and chunk_size as passed on
RepairedOverlap(chunk_size, overlap) ==
    IF overlap >= chunk_size THEN chunk_size - 1 ELSE overlap

RepairedChunkSize(chunk_size, overlap) ==
    IF chunk_size - RepairedOverlap(chunk_size, overlap) <= 0
    THEN RepairedOverlap(chunk_size, overlap) + 1
    ELSE chunk_size

\* Mutant: a missing credential is not noticed when the provider is
\* selected (it would surface in each chunk's model call)
ProviderErrorIgnoresCredential(model, environ) ==
    IF model \in {"claude", "ollama", "groq"} THEN None
    ELSE Some(<<"Unsupported model provider: ", model>>)

\* Mutant: an unknown provider falls back to the local model
ProviderErrorFallsBack(model, environ) ==
    CASE model = "claude" ->
           IF "ANTHROPIC_API_KEY" \in environ THEN None
           ELSE Some(<<"ANTHROPIC_API_KEY not set">>)
      [] model = "groq" ->
           IF "GROQ_API_KEY" \in environ THEN None
           ELSE Some(<<"GROQ_API_KEY not set">>)
      [] OTHER -> None

\* TranscriptProcessor.process_transcript: the exception raised while the
\* provider is selected, or None
ProviderError(model, environ) ==
    CASE model = "claude" ->
           IF "ANTHROPIC_API_KEY" \in environ THEN None
           ELSE Some(<<"ANTHROPIC_API_KEY not set">>)
      [] model = "ollama" -> None
      [] model = "groq" ->
           IF "GROQ_API_KEY" \in environ THEN None
           ELSE Some(<<"GROQ_API_KEY not set">>)
      [] OTHER -> Some(<<"Unsupported model provider: ", model>>)

-----------------------------------------------------------------------------
(* The job store: DatabaseManager *)

HasRecord(procs, id) == id \in DOMAIN procs

\* the row create_process inserts
NewRow(t) ==
    [status |-> "PENDING", created_at |-> t, updated_at |-> t,
     error |-> None, result |-> None, start_time |-> Some(t),
     end_time |-> None, chunk_count |-> 0, processing_time |-> 0,
     metadata |-> None]

\* Mutant: create_process replaces the row of meeting_id by a new one
CreatedTableReplacesRow(procs, id, t) ==
    [x \in DOMAIN procs \cup {id} |->
        IF x = id THEN NewRow(t) ELSE procs[x]]

\* Mutant: create_process on an existing row resets the status and the
\* times but leaves result and error as they are
CreatedTableKeepsOutcome(procs, id, t) ==
    IF HasRecord(procs, id)
    THEN [procs EXCEPT ![id] = [@ EXCEPT !.status = "PENDING",
                                         !.updated_at = t,
                                         !.start_time = Some(t)]]
    ELSE [x \in DOMAIN procs \cup {id} |->
            IF x = id THEN NewRow(t) ELSE procs[x]]

\* create_process: UPDATE the row of meeting_id, INSERT when none was updated
CreatedTable(procs, id, t) ==
    IF HasRecord(procs, id)
    THEN [procs EXCEPT ![id] = [@ EXCEPT !.status = "PENDING",
                                         !.updated_at = t,
                                         !.start_time = Some(t),
                                         !.error = None,
                                         !.result = None]]
    ELSE [x \in DOMAIN procs \cup {id} |->
            IF x = id THEN NewRow(t) ELSE procs[x]]

\* the arguments of update_process other than meeting_id
UpdateArgs(status, result, error, chunk_count, processing_time, metadata) ==
    [status |-> status, result |-> result, error |-> error,
     chunk_count |-> chunk_count, processing_time |-> processing_time,
     metadata |-> metadata]

\* Mutant: update_process writes every column, NULL for an omitted argument
UpdatedRowOverwrites(row, a, t) ==
    [row EXCEPT
       !.status = a.status,
       !.updated_at = t,
       !.result = IF ~IsNone(a.result) /\ Truthy(Val(a.result))
                  THEN Some(JsonDumps(Val(a.result))) ELSE None,
       !.error = IF ~IsNone(a.error) /\ Val(a.error) # <<>>
                 THEN a.error ELSE None,
       !.chunk_count = IF ~IsNone(a.chunk_count)
                       THEN Val(a.chunk_count) ELSE 0,
       !.processing_time = IF ~IsNone(a.processing_time)
                           THEN Val(a.processing_time) ELSE 0,
       !.metadata = IF ~IsNone(a.metadata) /\ Truthy(Val(a.metadata))
                    THEN Some(JsonDumps(Val(a.metadata))) ELSE None,
       !.end_time = IF a.status = "COMPLETED" \/ a.status = "FAILED"
                    THEN Some(t) ELSE @]

\* the row after the UPDATE statement update_process builds
UpdatedRow(row, a, t) ==
    [row EXCEPT
       !.status = a.status,
       !.updated_at = t,
       !.result = IF ~IsNone(a.result) /\ Truthy(Val(a.result))
                  THEN Some(JsonDumps(Val(a.result))) ELSE @,
       !.error = IF ~IsNone(a.error) /\ Val(a.error) # <<>>
                 THEN a.error ELSE @,
       !.chunk_count = IF ~IsNone(a.chunk_count)
                       THEN Val(a.chunk_count) ELSE @,
       !.processing_time = IF ~IsNone(a.processing_time)
                           THEN Val(a.processing_time) ELSE @,
       !.metadata = IF ~IsNone(a.metadata) /\ Truthy(Val(a.metadata))
                    THEN Some(JsonDumps(Val(a.metadata))) ELSE @,
       !.end_time = IF a.status = "COMPLETED" \/ a.status = "FAILED"
                    THEN Some(t) ELSE @]

\* Mutant: the UPDATE of update_process has no WHERE clause
UpdatedTableAllRows(procs, id, a, t) ==
    IF HasRecord(procs, id)
    THEN [x \in DOMAIN procs |-> UpdatedRow(procs[x], a, t)]
    ELSE procs

\* update_process: an UPDATE ... WHERE meeting_id = ?, no row is created
UpdatedTable(procs, id, a, t) ==
    IF HasRecord(procs, id)
    THEN [procs EXCEPT ![id] = UpdatedRow(@, a, t)]
    ELSE procs

\* the row save_transcript writes
TranscriptRow(req, old_name) ==
    [transcript_text |-> req.text, model |-> req.model,
     chunk_size |-> req.chunk_size, overlap |-> req.overlap,
     meeting_name |-> old_name]

\* save_transcript: UPDATE the row of meeting_id, INSERT when none was updated
SavedTable(trs, id, req) ==
    IF id \in DOMAIN trs
    THEN [trs EXCEPT ![id] = TranscriptRow(req, @.meeting_name)]
    ELSE [x \in DOMAIN trs \cup {id} |->
            IF x = id THEN TranscriptRow(req, None) ELSE trs[x]]

\* update_meeting_name: the transcript_chunks part
RenamedTable(trs, id, meeting_name) ==
    IF id \in DOMAIN trs
    THEN [trs EXCEPT ![id].meeting_name = Some(meeting_name)]
    ELSE trs

\* Mutant: a LEFT JOIN, the transcript row is returned without its job
GetTranscriptDataLeftJoin(procs, trs, id) ==
    IF id \in DOMAIN trs
    THEN IF id \in DOMAIN procs
         THEN Some([status |-> procs[id].status, result |-> procs[id].result])
         ELSE Some([status |-> "unknown", result |-> None])
    ELSE None

\* get_transcript_data: SELECT t.*, p.status, p.result over the JOIN
GetTranscriptData(procs, trs, id) ==
    IF id \in DOMAIN trs /\ id \in DOMAIN procs
    THEN Some([status |-> procs[id].status, result |-> procs[id].result])
    ELSE None

\* Mutant: get_process hands back the stored JSON text of result and
\* metadata without decoding it
GetProcessReturnsText(procs, id) ==
    IF ~HasRecord(procs, id) THEN None
    ELSE Some([meeting_id |-> id,
               status |-> procs[id].status,
               created_at |-> procs[id].created_at,
               updated_at |-> procs[id].updated_at,
               start_time |-> procs[id].start_time,
               end_time |-> procs[id].end_time,
               chunk_count |-> procs[id].chunk_count,
               processing_time |-> procs[id].processing_time,
               result |-> procs[id].result,
               error |-> procs[id].error,
               metadata |-> procs[id].metadata])

\* get_process: None when there is no row; result, error and metadata are
\* keys of the dict only when the column is not empty (None = key absent),
\* result and metadata decoded with json.loads
GetProcess(procs, id) ==
    IF ~HasRecord(procs, id) THEN None
    ELSE Some([meeting_id |-> id,
               status |-> procs[id].status,
               created_at |-> procs[id].created_at,
               updated_at |-> procs[id].updated_at,
               start_time |-> procs[id].start_time,
               end_time |-> procs[id].end_time,
               chunk_count |-> procs[id].chunk_count,
               processing_time |-> procs[id].processing_time,
               result |-> IF IsNone(procs[id].result) THEN None
                          ELSE Some(JsonLoads(Val(procs[id].result))),
               error |-> IF IsNone(procs[id].error)
                            \/ Val(procs[id].error) = <<>>
                         THEN None ELSE procs[id].error,
               metadata |-> IF IsNone(procs[id].metadata) THEN None
                            ELSE Some(JsonLoads(Val(procs[id].metadata)))])

\* Mutant: the sweep spares the records that are still PENDING
PurgedTableSparesPending(procs, cutoff) ==
    [x \in {y \in DOMAIN procs : \/ ~(procs[y].created_at < cutoff)
                                  \/ procs[y].status = "PENDING"}
        |-> procs[x]]

\* cleanup_old_processes: DELETE FROM summary_processes
\* WHERE created_at < cutoff
PurgedTable(procs, cutoff) ==
    [x \in {y \in DOMAIN procs : ~(procs[y].created_at < cutoff)}
        |-> procs[x]]

-----------------------------------------------------------------------------
(* The poll endpoint: get_summary *)

\* str.lower() on the status texts that occur
Lower(status) ==
    CASE status = "PENDING" -> "pending"
      [] status = "COMPLETED" -> "completed"
      [] status = "FAILED" -> "failed"
      [] OTHER -> status

\* A JSON response; error = None means the body has no "error" key.
Response(code, status, meetingName, data, error) ==
    [code |-> code, status |-> status, meetingName |-> meetingName,
     data |-> data, start |-> None, end |-> None, error |-> error]

NotFoundResponse ==
    Response(404, "error", None, None, Some(<<"Process ID not found">>))

InternalErrorResponse ==
    Response(500, "error", None, None,
             Some(<<"Internal server error: ", "db error">>))

\* Mutant: a result that decodes to a string is not decoded a second time
ParsedResultDecodesOnce(stored) ==
    IF IsNone(stored) THEN [failed |-> FALSE, data |-> None]
    ELSE IF JsonLoadsRaises(Val(stored)) THEN [failed |-> TRUE, data |-> None]
    ELSE LET parsed_result == JsonLoads(Val(stored)) IN
         IF IsDict(parsed_result)
         THEN [failed |-> FALSE, data |-> Some(parsed_result)]
         ELSE [failed |-> FALSE, data |-> None]

\* lines 273-297: the outcome of parsing the stored result.
\* failed: a JSONDecodeError was caught; data: summary_data
ParsedResult(stored) ==
    IF IsNone(stored) THEN [failed |-> FALSE, data |-> None]
    ELSE IF JsonLoadsRaises(Val(stored)) THEN [failed |-> TRUE, data |-> None]
    ELSE LET parsed_result == JsonLoads(Val(stored)) IN
         IF IsStr(parsed_result)
         THEN IF JsonLoadsRaises(parsed_result)
              THEN [failed |-> TRUE, data |-> None]
              ELSE IF IsDict(JsonLoads(parsed_result))
                   THEN [failed |-> FALSE, data |-> Some(JsonLoads(parsed_result))]
                   ELSE [failed |-> FALSE, data |-> None]
         ELSE IF IsDict(parsed_result)
              THEN [failed |-> FALSE, data |-> Some(parsed_result)]
              ELSE [failed |-> FALSE, data |-> None]

\* summary_data.get("MeetingName") if isinstance(summary_data, dict)
MeetingNameOf(data) ==
    IF ~IsNone(data) /\ Val(data).kind = "dict"
    THEN Some(Val(data).val.MeetingName) ELSE None

\* Mutant: data is not cleared while the job is processing
StatusResponseKeepsData(row) ==
    LET p == ParsedResult(row.result)
        status == IF p.failed THEN "failed" ELSE Lower(row.status)
        error == IF p.failed THEN <<"Invalid summary data format">>
                 ELSE <<"Unknown processing error">>
    IN IF status = "failed"
       THEN Response(400, "error", None, None, Some(error))
       ELSE IF status \in {"processing", "pending", "started"}
       THEN Response(202, "processing", MeetingNameOf(p.data), p.data, None)
       ELSE IF status = "completed"
       THEN IF IsNone(p.data) \/ ~Truthy(Val(p.data))
            THEN Response(500, "error", None, None,
                   Some(<<"Completed but summary data is missing or invalid">>))
            ELSE Response(200, "completed", MeetingNameOf(p.data), p.data, None)
       ELSE Response(500, "error", None, None,
                     Some(<<"Unknown or unexpected status: ", status>>))

\* lines 300-338: the response built from the row get_transcript_data gave
StatusResponse(row) ==
    LET p == ParsedResult(row.result)
        status == IF p.failed THEN "failed" ELSE Lower(row.status)
        error == IF p.failed THEN <<"Invalid summary data format">>
                 ELSE <<"Unknown processing error">>
    IN IF status = "failed"
       THEN Response(400, "error", None, None, Some(error))
       ELSE IF status \in {"processing", "pending", "started"}
       THEN Response(202, "processing", MeetingNameOf(p.data), None, None)
       ELSE IF status = "completed"
       THEN IF IsNone(p.data) \/ ~Truthy(Val(p.data))
            THEN Response(500, "error", None, None,
                   Some(<<"Completed but summary data is missing or invalid">>))
            ELSE Response(200, "completed", MeetingNameOf(p.data), p.data, None)
       ELSE Response(500, "error", None, None,
                     Some(<<"Unknown or unexpected status: ", status>>))

\* get_summary when the store answers
SummaryResponseFor(procs, trs, id) ==
    IF IsNone(GetTranscriptData(procs, trs, id)) THEN NotFoundResponse
    ELSE StatusResponse(Val(GetTranscriptData(procs, trs, id)))

\* get_summary: store_raises = the store read raised (lines 340-354)
GetSummary(id, store_raises) ==
    LET response == IF store_raises THEN InternalErrorResponse
                    ELSE SummaryResponseFor(processes, transcripts, id)
    IN /\ lastPoll' = [lastPoll EXCEPT ![id] = Some(response)]
       /\ terminalSeen' = [terminalSeen EXCEPT ![id] =
             IF response.code \in {200, 400} THEN @ \cup {response.status}
             ELSE @]
       /\ UNCHANGED <<processes, transcripts, now, env, task, apiResponse, serviceVars>>

-----------------------------------------------------------------------------
(* The background task: process_transcript_background *)

\* A TranscriptRequest (model_name is only handed on to the provider's SDK)
Request(text, model, chunk_size, overlap) ==
    [text |-> text, model |-> model, chunk_size |-> chunk_size,
     overlap |-> overlap]

\* the transcripts submitted: the prefixes of Letters up to MaxTextLen
Letters == <<"a", "b", "c", "d", "e">>

Texts == {SubSeq(Letters, 1, n) : n \in 0..MaxTextLen}

\* <<chunk_size, overlap>> as submitted
ChunkParams == {<<2, 1>>, <<2, 0>>, <<5, 1>>, <<2, 5>>, <<0, 0>>, <<2, -1>>}

Requests ==
    {Request(text, "ollama", p[1], p[2]) : text \in Texts, p \in ChunkParams}
    \cup
    {Request(<<"a", "b">>, model, 2, 1) : model \in {"claude", "groq", "gpt"}}

\* What one agent.run call may do: return a SummaryResponse, raise after
\* its retries (malformed output), raise a transport error, or return
\* something that is no SummaryResponse
Outcome(kind, data) == [kind |-> kind, data |-> data]

ChunkOutcomes ==
    {Outcome("summary", Some(s)) : s \in ChunkSummaries}
    \cup {Outcome("malformed", None), Outcome("transport", None),
          Outcome("unexpected", None)}

IdleTask ==
    [pc |-> "idle", transcript |-> None, chunks |-> <<>>, num_chunks |-> 0,
     i |-> 0, all_json_data |-> <<>>, calls |-> <<>>,
     final_summary |-> EmptySummary, k |-> 0, error_msg |-> None,
     raised |-> <<>>, writes |-> <<>>, logged |-> FALSE, escaped |-> FALSE]

\* Mutant: the exception is swallowed, no failed-status write is attempted
HandleExceptionSwallows(t, where, msg) ==
    [t EXCEPT !.pc = "done",
              !.raised = Append(@, [where |-> where, msg |-> msg])]

\* except Exception as e: error_msg = str(e), then the failed-status write
HandleException(t, where, msg) ==
    [t EXCEPT !.pc = "failed_write",
              !.error_msg = Some(msg),
              !.raised = Append(@, [where |-> where, msg |-> msg])]

\* Mutant: the failed-status write is not guarded, its exception escapes
HandleWriteFailureEscapes(t, msg) ==
    [t EXCEPT !.pc = "done",
              !.escaped = TRUE,
              !.raised = Append(@, [where |-> "failed_write", msg |-> msg])]

\* except Exception as db_e around the failed-status write: logged only
HandleWriteFailure(t, msg) ==
    [t EXCEPT !.pc = "done",
              !.logged = TRUE,
              !.raised = Append(@, [where |-> "failed_write", msg |-> msg])]

\* one update_process call as the task issued it
WriteAttempt(a, ok) ==
    [status |-> a.status, result |-> a.result, error |-> a.error, ok |-> ok]

StoreError == <<"db error">>

\* Mutant: the task records an intermediate status when it starts
StartTaskWritesProcessing(id, req) ==
    /\ task[id].pc = "idle"
    /\ task' = [task EXCEPT ![id] =
                  [IdleTask EXCEPT !.pc = "processing",
                                   !.transcript = Some(req)]]
    /\ processes' = UpdatedTable(processes, id,
                        UpdateArgs("processing", None, None, None, None, None),
                        now)
    /\ UNCHANGED <<transcripts, now, env, lastPoll, terminalSeen, apiResponse, serviceVars>>

\* background_tasks.add_task(process_transcript_background, id, transcript)
StartTask(id, req) ==
    /\ task[id].pc = "idle"
    /\ task' = [task EXCEPT ![id] =
                  [IdleTask EXCEPT !.pc = "processing",
                                   !.transcript = Some(req)]]
    /\ UNCHANGED <<processes, transcripts, now, env, lastPoll, terminalSeen, apiResponse, serviceVars>>

\* SummaryProcessor.process_transcript and TranscriptProcessor
\* .process_transcript up to the first model call
ProcessTranscript(id, collection_ok) ==
    /\ task[id].pc = "processing"
    /\ LET req == Val(task[id].transcript)
           verr == ValidationError(req.text, req.chunk_size, req.overlap)
           chunk_size == RepairedChunkSize(req.chunk_size, req.overlap)
           overlap == RepairedOverlap(req.chunk_size, req.overlap)
           perr == ProviderError(req.model, env)
           chunks == SplitChunks(req.text, chunk_size, overlap)
       IN task' = [task EXCEPT ![id] =
            IF ~IsNone(verr) THEN HandleException(@, "processing", Val(verr))
            ELSE IF ~collection_ok
            THEN HandleException(@, "processing", <<"chroma error">>)
            ELSE IF ~IsNone(perr)
            THEN HandleException(@, "processing", Val(perr))
            ELSE [@ EXCEPT !.chunks = chunks,
                           !.num_chunks = Len(chunks),
                           !.i = 1,
                           !.k = 1,
                           !.pc = IF Len(chunks) = 0 THEN "aggregate"
                                  ELSE "chunk"]]
    /\ UNCHANGED <<processes, transcripts, now, env, lastPoll, terminalSeen, apiResponse, serviceVars>>

\* TranscriptProcessor.process_transcript called directly (not through
\* SummaryProcessor.process_transcript), up to the first model call
TranscriptProcessorCall(id, req) ==
    /\ task[id].pc = "idle"
    /\ LET perr == ProviderError(req.model, env)
           chunks == SplitChunks(req.text, req.chunk_size, req.overlap)
       IN task' = [task EXCEPT ![id] =
            IF ~IsNone(perr)
            THEN [IdleTask EXCEPT !.pc = "raised",
                                  !.transcript = Some(req),
                                  !.raised = <<[where |-> "processing",
                                                msg |-> Val(perr)]>>]
            ELSE [IdleTask EXCEPT !.transcript = Some(req),
                                  !.chunks = chunks,
                                  !.num_chunks = Len(chunks),
                                  !.i = 1,
                                  !.pc = IF Len(chunks) = 0 THEN "returned"
                                         ELSE "chunk"]]
    /\ UNCHANGED <<processes, transcripts, now, env, lastPoll, terminalSeen, apiResponse, serviceVars>>

\* Mutant: a chunk whose model call raises aborts the job
RunChunkAbortsOnFailure(id, outcome) ==
    /\ task[id].pc = "chunk"
    /\ task' = [task EXCEPT ![id] =
         IF outcome.kind \in {"malformed", "transport"}
         THEN HandleException(
                [@ EXCEPT !.calls = Append(@, [chunk |-> task[id].i,
                                               kind |-> outcome.kind,
                                               result |-> outcome.data])],
                "chunk", <<"model error">>)
         ELSE [@ EXCEPT
            !.all_json_data =
                IF outcome.kind = "summary"
                THEN Append(@, JsonDumps(JDict(Val(outcome.data))))
                ELSE @,
            !.calls = Append(@, [chunk |-> task[id].i, kind |-> outcome.kind,
                                 result |-> outcome.data]),
            !.i = @ + 1,
            !.pc = IF task[id].i >= task[id].num_chunks THEN "aggregate"
                   ELSE "chunk"]]
    /\ UNCHANGED <<processes, transcripts, now, env, lastPoll, terminalSeen, apiResponse, serviceVars>>

\* Mutant: the result of a chunk is put in front of the earlier results
RunChunkPrepends(id, outcome) ==
    /\ task[id].pc = "chunk"
    /\ task' = [task EXCEPT ![id] =
         [@ EXCEPT
            !.all_json_data =
                IF outcome.kind = "summary"
                THEN <<JsonDumps(JDict(Val(outcome.data)))>> \o @
                ELSE @,
            !.calls = Append(@, [chunk |-> task[id].i, kind |-> outcome.kind,
                                 result |-> outcome.data]),
            !.i = @ + 1,
            !.pc = IF task[id].i >= task[id].num_chunks THEN "aggregate"
                   ELSE "chunk"]]
    /\ UNCHANGED <<processes, transcripts, now, env, lastPoll, terminalSeen, apiResponse, serviceVars>>

\* one iteration of the loop over chunks: the model call and its handling
RunChunk(id, outcome) ==
    /\ task[id].pc = "chunk"
    /\ task' = [task EXCEPT ![id] =
         [@ EXCEPT
            !.all_json_data =
                IF outcome.kind = "summary"
                THEN Append(@, JsonDumps(JDict(Val(outcome.data))))
                ELSE @,
            !.calls = Append(@, [chunk |-> task[id].i, kind |-> outcome.kind,
                                 result |-> outcome.data]),
            !.i = @ + 1,
            !.pc = IF task[id].i >= task[id].num_chunks THEN "aggregate"
                   ELSE "chunk"]]
    /\ UNCHANGED <<processes, transcripts, now, env, lastPoll, terminalSeen, apiResponse, serviceVars>>

\* one iteration of the loop over all_json_data
AggregateStep(id) ==
    /\ task[id].pc = "aggregate"
    /\ task[id].k <= Len(task[id].all_json_data)
    /\ task' = [task EXCEPT ![id] =
         [@ EXCEPT
            !.final_summary =
                AggregateChunk(@, task[id].all_json_data[task[id].k]),
            !.k = @ + 1]]
    /\ UNCHANGED <<processes, transcripts, now, env, lastPoll, terminalSeen, apiResponse, serviceVars>>

\* Mutant: update_meeting_name is called whatever the MeetingName is
FinishAggregateAlwaysRenames(id) ==
    /\ task[id].pc = "aggregate"
    /\ task[id].k > Len(task[id].all_json_data)
    /\ task' = [task EXCEPT ![id].pc = "name_write"]
    /\ UNCHANGED <<processes, transcripts, now, env, lastPoll, terminalSeen, apiResponse, serviceVars>>

\* the loop is over: if final_summary["MeetingName"]
FinishAggregate(id) ==
    /\ task[id].pc = "aggregate"
    /\ task[id].k > Len(task[id].all_json_data)
    /\ task' = [task EXCEPT ![id].pc =
                  IF task[id].final_summary.MeetingName # ""
                  THEN "name_write" ELSE "completed_write"]
    /\ UNCHANGED <<processes, transcripts, now, env, lastPoll, terminalSeen, apiResponse, serviceVars>>

\* await processor.db.update_meeting_name(process_id, ...)
UpdateMeetingName(id, raises) ==
    /\ task[id].pc = "name_write"
    /\ IF raises
       THEN /\ task' = [task EXCEPT ![id] =
                          HandleException(@, "name_write", StoreError)]
            /\ UNCHANGED transcripts
       ELSE /\ task' = [task EXCEPT ![id].pc = "completed_write"]
            /\ transcripts' = RenamedTable(transcripts, id,
                                  task[id].final_summary.MeetingName)
    /\ UNCHANGED <<processes, now, env, lastPoll, terminalSeen, apiResponse, serviceVars>>

\* Mutant: the task falls into its exception handler after the
\* completed-status write has taken effect
WriteCompletedThenFailed(id, raises) ==
    /\ task[id].pc = "completed_write"
    /\ LET a == UpdateArgs("completed",
                    Some(JsonDumps(JDict(task[id].final_summary))),
                    None, None, None, None)
       IN /\ task' = [task EXCEPT ![id] =
                 HandleException(
                     [@ EXCEPT !.writes = Append(@, WriteAttempt(a, ~raises))],
                     "completed_write", StoreError)]
          /\ processes' = IF raises THEN processes
                          ELSE UpdatedTable(processes, id, a, now)
    /\ UNCHANGED <<transcripts, now, env, lastPoll, terminalSeen, apiResponse, serviceVars>>

\* await processor.db.update_process(process_id, status="completed",
\*                                   result=json.dumps(final_summary))
WriteCompleted(id, raises) ==
    /\ task[id].pc = "completed_write"
    /\ LET a == UpdateArgs("completed",
                    Some(JsonDumps(JDict(task[id].final_summary))),
                    None, None, None, None)
       IN IF raises
          THEN /\ task' = [task EXCEPT ![id] =
                    HandleException(
                        [@ EXCEPT !.writes = Append(@, WriteAttempt(a, FALSE))],
                        "completed_write", StoreError)]
               /\ UNCHANGED processes
          ELSE /\ task' = [task EXCEPT ![id] =
                    [@ EXCEPT !.writes = Append(@, WriteAttempt(a, TRUE)),
                              !.pc = "done"]]
               /\ processes' = UpdatedTable(processes, id, a, now)
    /\ UNCHANGED <<transcripts, now, env, lastPoll, terminalSeen, apiResponse, serviceVars>>

\* await processor.db.update_process(process_id, status="failed",
\*                                   error=error_msg)
WriteFailed(id, raises) ==
    /\ task[id].pc = "failed_write"
    /\ LET a == UpdateArgs("failed", None, task[id].error_msg,
                           None, None, None)
       IN IF raises
          THEN /\ task' = [task EXCEPT ![id] =
                    HandleWriteFailure(
                        [@ EXCEPT !.writes = Append(@, WriteAttempt(a, FALSE))],
                        StoreError)]
               /\ UNCHANGED processes
          ELSE /\ task' = [task EXCEPT ![id] =
                    [@ EXCEPT !.writes = Append(@, WriteAttempt(a, TRUE)),
                              !.pc = "done"]]
               /\ processes' = UpdatedTable(processes, id, a, now)
    /\ UNCHANGED <<transcripts, now, env, lastPoll, terminalSeen, apiResponse, serviceVars>>

-----------------------------------------------------------------------------
(* The submit endpoint: process_transcript_api *)

\* Mutant: create_process has a default for meeting_id, so the call
\* without an argument binds
CreateProcessCallDefaulted(args) ==
    IF Len(args) = 0
    THEN [raises |-> FALSE, meeting_id |-> Some("p1")]
    ELSE [raises |-> FALSE, meeting_id |-> Some(args[1])]

\* Binding the arguments of a call of create_process(self, meeting_id):
\* a call that does not pass exactly meeting_id raises TypeError
CreateProcessCall(args) ==
    IF Len(args) # 1
    THEN [raises |-> TRUE, meeting_id |-> None]
    ELSE [raises |-> FALSE, meeting_id |-> Some(args[1])]

ApiResponse(code, req, process_id, detail) ==
    [code |-> code, request |-> req, process_id |-> process_id,
     detail |-> detail]

\* process_transcript_api: processor.db.create_process() is called with
\* no argument; any exception becomes HTTPException(500)
ProcessTranscriptApi(req) ==
    LET call == CreateProcessCall(<<>>) IN
    IF call.raises
    THEN /\ apiResponse' = Some(ApiResponse(500, req, None,
                Some(<<"create_process() missing 1 required positional argument">>)))
         /\ UNCHANGED <<processes, transcripts, now, env, task, lastPoll, terminalSeen, serviceVars>>
    ELSE LET process_id == Val(call.meeting_id) IN
         /\ processes' = CreatedTable(processes, process_id, now)
         /\ transcripts' = SavedTable(transcripts, process_id, req)
         /\ task' = [task EXCEPT ![process_id] =
                       [IdleTask EXCEPT !.pc = "processing",
                                        !.transcript = Some(req)]]
         /\ apiResponse' = Some(ApiResponse(200, req, Some(process_id), None))
         /\ UNCHANGED <<now, env, lastPoll, terminalSeen, serviceVars>>

-----------------------------------------------------------------------------
(* Store calls made directly *)

CreateProcess(id) ==
    /\ processes' = CreatedTable(processes, id, now)
    /\ UNCHANGED <<transcripts, now, env, task, lastPoll, terminalSeen, apiResponse, serviceVars>>

UpdateProcess(id, a) ==
    /\ processes' = UpdatedTable(processes, id, a, now)
    /\ UNCHANGED <<transcripts, now, env, task, lastPoll, terminalSeen, apiResponse, serviceVars>>

SaveTranscript(id, req) ==
    /\ transcripts' = SavedTable(transcripts, id, req)
    /\ UNCHANGED <<processes, now, env, task, lastPoll, terminalSeen, apiResponse, serviceVars>>

\* cleanup_old_processes(hours), cutoff = utcnow() - timedelta(hours)
CleanupOldProcesses(hours) ==
    /\ processes' = PurgedTable(processes, now - hours)
    /\ UNCHANGED <<transcripts, now, env, task, lastPoll, terminalSeen, apiResponse, serviceVars>>

\* time passes between two reads of datetime.utcnow()
Tick ==
    /\ now < MaxTime
    /\ now' = now + 1
    /\ UNCHANGED <<processes, transcripts, env, task, lastPoll, terminalSeen, apiResponse, serviceVars>>

\* a summary a caller may store
SampleSummary ==
    SummaryDict("Standup", [key \in SectionKeys |-> SectionTitle(key)],
                [NoBlocks EXCEPT !["NextSteps"] = <<"b1">>])

\* the update_process calls a caller of the store may make
StoreUpdates ==
    {UpdateArgs(st, None, None, None, None, None) :
        st \in {"processing", "completed", "failed",
                "COMPLETED", "FAILED", "archived"}}
    \cup
    {UpdateArgs("completed", Some(r), None, None, None, None) :
        r \in {JDict(SampleSummary), JsonDumps(JDict(SampleSummary)),
               JEmptyDict, JList, JGarbage}}
    \cup
    {UpdateArgs("COMPLETED", Some(JDict(SampleSummary)), None, None, None, None),
     UpdateArgs("COMPLETED", None, None, None, None, Some(JDict(SampleSummary))),
     UpdateArgs("COMPLETED", None, None, None, None, Some(JEmptyDict)),
     UpdateArgs("completed", None, None, Some(3), Some(2), None),
     UpdateArgs("processing", None, None, Some(0), None, None),
     UpdateArgs("failed", None, Some(<<"boom">>), None, None, None),
     UpdateArgs("FAILED", None, Some(<<>>), None, None, None)}

-----------------------------------------------------------------------------
(* services/summarization_service.py *)

\* A text is modelled by what summarize() reads of it: the whitespace before
\* the first word, the lengths of its words, the lengths of the whitespace
\* runs between them, and the whitespace after the last word.  A text of
\* whitespace alone has no words and carries its length in lead and trail.
Text(lead, words, gaps, trail) ==
    [lead |-> lead, words |-> words, gaps |-> gaps, trail |-> trail]

EmptyText == Text(0, <<>>, <<>>, 0)

RECURSIVE SumSeq(_)
SumSeq(q) == IF q = <<>> THEN 0 ELSE Head(q) + SumSeq(Tail(q))

\* len(text)
TextLen(t) == t.lead + SumSeq(t.words) + SumSeq(t.gaps) + t.trail

\* text.strip()
Strip(t) == IF t.words = <<>> THEN EmptyText
            ELSE Text(0, t.words, t.gaps, 0)

\* text.split()
Split(t) == t.words

\* " ".join(words)
Join(words) ==
    IF words = <<>> THEN EmptyText
    ELSE Text(0, words, [i \in 1..(Len(words) - 1) |-> 1], 0)

\* the three characters "..." appended to a text
Ellipsis == <<".", ".", ".">>

\* text + "...": the dots extend the last word, or are the only word
WithEllipsis(t) ==
    IF t.words = <<>>
    THEN Text(t.lead + t.trail, <<Len(Ellipsis)>>, <<>>, 0)
    ELSE IF t.trail > 0
    THEN Text(t.lead, Append(t.words, Len(Ellipsis)),
              Append(t.gaps, t.trail), 0)
    ELSE Text(t.lead, [t.words EXCEPT ![Len(t.words)] = @ + Len(Ellipsis)],
              t.gaps, 0)

\* words = text.split(); " ".join(words[:len(words)//2]) + "..."
Truncated(t) ==
    WithEllipsis(Join(SubSeq(Split(t), 1, Len(Split(t)) \div 2)))

\* texts shorter than this, stripped, are returned as they are
ShortTextLimit == 100

\* The answer of the Ollama request: the request raises (connection error,
\* HTTP error status, a body that is not JSON, a response that is no str),
\* or the body is parsed and the text of result.get("response", "") is read.
\* SummarizationService.summarize(text)
Summarize(text, answer) ==
    IF TextLen(text) = 0 THEN Some(EmptyText)
    ELSE IF TextLen(Strip(text)) < ShortTextLimit THEN Some(Strip(text))
    ELSE IF IsNone(answer) THEN None
    ELSE LET summary == Strip(Val(answer))
         IN  IF TextLen(summary) >= TextLen(text)
             THEN Some(Truncated(text))
             ELSE Some(summary)

\* MockSummarizationService.summarize(text)
MockSummarize(text) ==
    IF TextLen(text) = 0 THEN Some(EmptyText)
    ELSE IF TextLen(Strip(text)) < ShortTextLimit THEN Some(Strip(text))
    ELSE Some(Truncated(text))

\* Inputs: up to MaxWords words of these lengths, separated by one or two
\* whitespace characters, with or without whitespace around them.
MaxWords == 2

WordLens == {1, 49, 98, 100}

WordSeqs == UNION {[1..n -> WordLens] : n \in 0..MaxWords}

GapSeqs(n) == IF n <= 1 THEN {<<>>} ELSE [1..(n - 1) -> {1, 2}]

SampleTexts ==
    {Text(lead, words, gaps, trail) :
        lead \in 0..1, trail \in 0..1,
        words \in WordSeqs, gaps \in UNION {GapSeqs(n) : n \in 0..MaxWords}}

SummaryTexts == {t \in SampleTexts : Len(t.gaps) = Max(0, Len(t.words) - 1)}

\* what the model may answer: nothing usable, an empty response, a short
\* one of three words, a one-word one, and one longer than every input
Answers ==
    {None,
     Some(EmptyText),
     Some(Text(1, <<1, 1, 1>>, <<1, 1>>, 1)),
     Some(Text(0, <<49>>, <<>>, 0)),
     Some(Join([i \in 1..(MaxWords + 2) |-> 100]))}

\* a call of the real service; summarize() keeps nothing between calls, so
\* one call per behaviour shows all of them
SummarizeCall(text, answer) ==
    /\ IsNone(summarized)
    /\ summarized' = Some([service |-> "ollama", text |-> text,
                           result |-> Summarize(text, answer)])
    /\ UNCHANGED <<jobVars, mockAudio, audio, recorder, stopCall>>

\* a call of the mock service
MockSummarizeCall(text) ==
    /\ IsNone(summarized)
    /\ summarized' = Some([service |-> "mock", text |-> text,
                           result |-> MockSummarize(text)])
    /\ UNCHANGED <<jobVars, mockAudio, audio, recorder, stopCall>>

-----------------------------------------------------------------------------
(* services/audio_service.py: MockAudioService *)

\* the session ids uuid4() may return
SessionIds == {"s1", "s2"}

\* an exception raised by a service call
Raised(type, message) == [type |-> type, message |-> message]

SessionNotFound(session_id) ==
    Raised("ValueError", <<"Recording session ", session_id, " not found">>)

\* wave.Wave_write.writeframes() before setnchannels(): the header cannot
\* be written
ChannelsNotSpecified == Raised("wave.Error", <<"# channels not specified">>)

\* the chunks a caller may add, and how many per session
AudioChunks == {"c1", "c2"}

MaxAudioChunks == 2

\* MockAudioService(): no session, nothing completed.  files are the
\* sessions whose .wav file exists in recording_dir, last is the last call
\* made on the service with the exception it raised, if any.
NewMockAudioService ==
    [recordings |-> [x \in {} |-> <<>>],
     completed_recordings |-> {},
     files |-> {},
     last |-> None]

MockCall(op, session_id, raised) ==
    Some([op |-> op, session_id |-> session_id, raised |-> raised])

\* MockAudioService.is_recording(session_id)
MockIsRecording(mock, session_id) == session_id \in DOMAIN mock.recordings

\* a mapping with one more key
WithKey(f, k, v) == [x \in DOMAIN f \cup {k} |-> IF x = k THEN v ELSE f[x]]

\* del f[k]
WithoutKey(f, k) == [x \in DOMAIN f \ {k} |-> f[x]]

\* MockAudioService.start_recording(): returns session_id, a fresh uuid4
MockStartRecording(session_id) ==
    /\ session_id \notin DOMAIN mockAudio.recordings
    /\ session_id \notin mockAudio.completed_recordings
    /\ mockAudio' =
         [mockAudio EXCEPT
            !.recordings = WithKey(@, session_id, <<"test_audio">>),
            !.last = MockCall("start_recording", session_id, None)]
    /\ UNCHANGED <<jobVars, audio, recorder, stopCall, summarized>>

\* MockAudioService.add_audio_chunk(session_id, audio_data)
MockAddAudioChunk(session_id, audio_data) ==
    /\ IF session_id \notin DOMAIN mockAudio.recordings
       THEN mockAudio' =
              [mockAudio EXCEPT
                 !.last = MockCall("add_audio_chunk", session_id,
                                   Some(SessionNotFound(session_id)))]
       ELSE /\ Len(mockAudio.recordings[session_id]) <= MaxAudioChunks
            /\ mockAudio' =
                 [mockAudio EXCEPT
                    !.recordings[session_id] = Append(@, audio_data),
                    !.last = MockCall("add_audio_chunk", session_id, None)]
    /\ UNCHANGED <<jobVars, audio, recorder, stopCall, summarized>>

\* MockAudioService.save_audio_file(audio_data, file_path):
\* wave.open(file_path, 'wb') creates the file, writeframes() raises because
\* no channel count, sample width or frame rate was set on the writer.
MockSaveAudioFile(files, session_id) ==
    [files |-> files \cup {session_id}, raised |-> Some(ChannelsNotSpecified)]

\* MockAudioService.stop_recording(session_id)
MockStopRecording(session_id) ==
    /\ IF session_id \in mockAudio.completed_recordings
       THEN mockAudio' =
              [mockAudio EXCEPT
                 !.last = MockCall("stop_recording", session_id, None)]
       ELSE IF session_id \notin DOMAIN mockAudio.recordings
       THEN mockAudio' =
              [mockAudio EXCEPT
                 !.last = MockCall("stop_recording", session_id,
                                   Some(SessionNotFound(session_id)))]
       ELSE LET saved == MockSaveAudioFile(mockAudio.files, session_id)
            IN  IF ~IsNone(saved.raised)
                THEN mockAudio' =
                       [mockAudio EXCEPT
                          !.files = saved.files,
                          !.last = MockCall("stop_recording", session_id,
                                            saved.raised)]
                ELSE mockAudio' =
                       [mockAudio EXCEPT
                          !.files = saved.files,
                          !.completed_recordings = @ \cup {session_id},
                          !.recordings = WithoutKey(@, session_id),
                          !.last = MockCall("stop_recording", session_id,
                                            None)]
    /\ UNCHANGED <<jobVars, audio, recorder, stopCall, summarized>>

-----------------------------------------------------------------------------
(* services/audio_service.py: AudioService *)

\* the two recording threads of a session
Sources == {"system", "mic"}

\* frames a recording queue holds at most
MaxFrames == 1

\* AudioService(): the dictionaries and the set are empty.  files are the
\* sessions whose .wav file was written.  A queue is the sequence of its
\* frames, the mic queue is None without a microphone, a stop flag is
\* whether the Event is set, recording_threads[s] lists the sources whose
\* thread was started.
NewAudioService ==
    [completed_recordings |-> {},
     recording_threads |-> [x \in {} |-> <<>>],
     recording_queues |-> [x \in {} |-> <<>>],
     stop_flags |-> [x \in {} |-> FALSE],
     files |-> {}]

\* A _record_audio thread: not started ("none"), in audio.open ("open"),
\* at the test of the while loop ("loop"), inside the loop body after the
\* flag was found clear ("read"), or ended by returning ("exited") or by
\* an exception ("crashed").  put_after_drain: the thread put a frame into
\* a queue stop_recording had already emptied.
Thread(pc, raised, put_after_drain) ==
    [pc |-> pc, raised |-> raised, put_after_drain |-> put_after_drain]

NoThread == Thread("none", None, FALSE)

IsAlive(thread) == thread.pc \in {"open", "loop", "read"}

KeyError(session_id) == Raised("KeyError", <<session_id>>)

\* A stop_recording call: where it is, the threads still to join in the
\* order of recording_threads[s], the joins that timed out, the frames
\* taken from the queues, whether the queues were emptied, and how the
\* call ended.
NoCall ==
    [pc |-> "idle", to_join |-> <<>>, timed_out |-> {},
     system_frames |-> <<>>, mic_frames |-> <<>>, drained |-> FALSE,
     raised |-> None]

HasEnded(call) == call.pc \in {"returned", "raised"}

\* AudioService.cleanup_session(session_id)
CleanupSession(svc, session_id) ==
    [svc EXCEPT
       !.recording_threads = WithoutKey(@, session_id),
       !.recording_queues = WithoutKey(@, session_id),
       !.stop_flags = WithoutKey(@, session_id)]

\* AudioService.start_recording(): session_id is a fresh uuid4.  Without a
\* BlackHole device _find_audio_devices raises and nothing is kept; else
\* the queues and the flag are created and the threads started.
StartRecording(session_id, blackhole, mic) ==
    /\ \A src \in Sources : recorder[session_id][src].pc = "none"
    /\ session_id \notin DOMAIN audio.recording_threads
    /\ session_id \notin audio.completed_recordings
    /\ IF ~blackhole
       THEN UNCHANGED <<audio, recorder>>
       ELSE /\ audio' =
                 [audio EXCEPT
                    !.recording_queues =
                        WithKey(@, session_id,
                                [system |-> Some(<<>>),
                                 mic |-> IF mic THEN Some(<<>>) ELSE None]),
                    !.stop_flags = WithKey(@, session_id, FALSE),
                    !.recording_threads =
                        WithKey(@, session_id,
                                IF mic THEN <<"system", "mic">>
                                ELSE <<"system">>)]
            /\ recorder' =
                 [recorder EXCEPT
                    ![session_id] =
                        [src \in Sources |->
                            IF src = "system" \/ mic
                            THEN Thread("open", None, FALSE)
                            ELSE NoThread]]
    /\ UNCHANGED <<jobVars, mockAudio, stopCall, summarized>>

\* _record_audio: self.audio.open(...) returns a stream or raises
RecordOpen(session_id, source, opened) ==
    /\ recorder[session_id][source].pc = "open"
    /\ recorder' =
         [recorder EXCEPT
            ![session_id][source] =
                IF opened THEN Thread("loop", None, FALSE)
                ELSE Thread("crashed",
                            Some(Raised("OSError", <<"open">>)), FALSE)]
    /\ UNCHANGED <<jobVars, mockAudio, audio, stopCall, summarized>>

\* _record_audio: while not self.stop_flags[session_id].is_set()
RecordLoop(session_id, source) ==
    /\ recorder[session_id][source].pc = "loop"
    /\ recorder' =
         [recorder EXCEPT
            ![session_id][source] =
                IF session_id \notin DOMAIN audio.stop_flags
                THEN [@ EXCEPT !.pc = "crashed",
                               !.raised = Some(KeyError(session_id))]
                ELSE IF audio.stop_flags[session_id]
                THEN [@ EXCEPT !.pc = "exited"]
                ELSE [@ EXCEPT !.pc = "read"]]
    /\ UNCHANGED <<jobVars, mockAudio, audio, stopCall, summarized>>

\* _record_audio, the loop body: stream.read raises OSError and the loop
\* continues, or its data is put into recording_queues[session_id][source]
RecordFrame(session_id, source, os_error) ==
    /\ recorder[session_id][source].pc = "read"
    /\ IF os_error
       THEN /\ recorder' = [recorder EXCEPT ![session_id][source].pc = "loop"]
            /\ UNCHANGED audio
       ELSE IF session_id \notin DOMAIN audio.recording_queues
       THEN /\ recorder' =
                 [recorder EXCEPT
                    ![session_id][source] =
                        [@ EXCEPT !.pc = "crashed",
                                  !.raised = Some(KeyError(session_id))]]
            /\ UNCHANGED audio
       ELSE /\ Len(Val(audio.recording_queues[session_id][source]))
                 < MaxFrames
            /\ audio' =
                 [audio EXCEPT
                    !.recording_queues[session_id][source] =
                        Some(Append(Val(@), "frame"))]
            /\ recorder' =
                 [recorder EXCEPT
                    ![session_id][source] =
                        [@ EXCEPT
                           !.pc = "loop",
                           !.put_after_drain =
                               @ \/ stopCall[session_id].drained]]
    /\ UNCHANGED <<jobVars, mockAudio, stopCall, summarized>>

\* stop_recording without its first check: a completed session is looked
\* up in recording_threads like any other
StopRecordingWithoutCompletedCheck(session_id) ==
    /\ stopCall[session_id].pc \in {"idle", "returned", "raised"}
    /\ IF session_id \notin DOMAIN audio.recording_threads
       THEN /\ stopCall' =
                 [stopCall EXCEPT
                    ![session_id] =
                        [NoCall EXCEPT
                           !.pc = "raised",
                           !.raised = Some(SessionNotFound(session_id))]]
            /\ UNCHANGED audio
       ELSE /\ audio' = [audio EXCEPT !.stop_flags[session_id] = TRUE]
            /\ stopCall' =
                 [stopCall EXCEPT
                    ![session_id] =
                        [NoCall EXCEPT
                           !.pc = "join",
                           !.to_join = audio.recording_threads[session_id]]]
    /\ UNCHANGED <<jobVars, mockAudio, recorder, summarized>>

\* stop_recording(session_id) up to the joins: the two checks, then the
\* stop flag is set
StopRecording(session_id) ==
    /\ stopCall[session_id].pc \in {"idle", "returned", "raised"}
    /\ IF session_id \in audio.completed_recordings
       THEN /\ stopCall' =
                 [stopCall EXCEPT
                    ![session_id] = [NoCall EXCEPT !.pc = "returned"]]
            /\ UNCHANGED audio
       ELSE IF session_id \notin DOMAIN audio.recording_threads
       THEN /\ stopCall' =
                 [stopCall EXCEPT
                    ![session_id] =
                        [NoCall EXCEPT
                           !.pc = "raised",
                           !.raised = Some(SessionNotFound(session_id))]]
            /\ UNCHANGED audio
       ELSE /\ audio' = [audio EXCEPT !.stop_flags[session_id] = TRUE]
            /\ stopCall' =
                 [stopCall EXCEPT
                    ![session_id] =
                        [NoCall EXCEPT
                           !.pc = "join",
                           !.to_join = audio.recording_threads[session_id]]]
    /\ UNCHANGED <<jobVars, mockAudio, recorder, summarized>>

\* stop_recording: thread.join(timeout=5) returns because the thread has
\* ended, or after five seconds with the thread still alive
StopJoin(session_id, timeout) ==
    /\ stopCall[session_id].pc = "join"
    /\ stopCall[session_id].to_join # <<>>
    /\ LET source == Head(stopCall[session_id].to_join)
           alive == IsAlive(recorder[session_id][source])
       IN  /\ alive => timeout
           /\ stopCall' =
                [stopCall EXCEPT
                   ![session_id] =
                       [@ EXCEPT
                          !.to_join = Tail(@),
                          !.timed_out =
                              IF alive THEN @ \cup {source} ELSE @]]
    /\ UNCHANGED <<jobVars, mockAudio, audio, recorder, summarized>>

\* stop_recording: the system queue, then the mic queue if there is one,
\* are emptied into system_frames and mic_frames
StopDrain(session_id) ==
    /\ stopCall[session_id].pc = "join"
    /\ stopCall[session_id].to_join = <<>>
    /\ LET queues == audio.recording_queues[session_id]
       IN  /\ stopCall' =
                [stopCall EXCEPT
                   ![session_id] =
                       [@ EXCEPT
                          !.pc = "save",
                          !.drained = TRUE,
                          !.system_frames = Val(queues.system),
                          !.mic_frames =
                              IF IsNone(queues.mic) THEN <<>>
                              ELSE Val(queues.mic)]]
           /\ audio' =
                [audio EXCEPT
                   !.recording_queues[session_id] =
                       [system |-> Some(<<>>),
                        mic |-> IF IsNone(queues.mic) THEN None
                                ELSE Some(<<>>)]]
    /\ UNCHANGED <<jobVars, mockAudio, recorder, summarized>>

\* _mix_audio(system_frames, mic_frames): np.frombuffer over bytes gives a
\* read-only array, so the in-place "mic_data *= 1.2" raises whenever
\* there are mic frames
MixAudio(system_frames, mic_frames) ==
    IF mic_frames # <<>>
    THEN [mixed |-> <<>>,
          raised |-> Some(Raised("ValueError",
                                 <<"output array is read-only">>))]
    ELSE [mixed |-> system_frames, raised |-> None]

\* stop_recording from the check of the frames to its end: no frames, a
\* failing mix or a failing write end in cleanup_session and the exception
\* raised again; else the file is written, the session is completed and
\* cleaned up
StopFinish(session_id, written) ==
    /\ stopCall[session_id].pc = "save"
    /\ LET call == stopCall[session_id]
           mix == MixAudio(call.system_frames, call.mic_frames)
           error ==
             IF call.system_frames = <<>> /\ call.mic_frames = <<>>
             THEN Some(Raised("ValueError", <<"No audio data recorded">>))
             ELSE IF ~IsNone(mix.raised) THEN mix.raised
             ELSE IF ~written THEN Some(Raised("OSError", <<"write">>))
             ELSE None
       IN  IF IsNone(error)
           THEN /\ audio' =
                     CleanupSession(
                         [audio EXCEPT
                            !.files = @ \cup {session_id},
                            !.completed_recordings = @ \cup {session_id}],
                         session_id)
                /\ stopCall' = [stopCall EXCEPT ![session_id].pc = "returned"]
           ELSE /\ audio' = CleanupSession(audio, session_id)
                /\ stopCall' =
                     [stopCall EXCEPT
                        ![session_id] =
                            [@ EXCEPT !.pc = "raised", !.raised = error]]
    /\ UNCHANGED <<jobVars, mockAudio, recorder, summarized>>

-----------------------------------------------------------------------------
(* Specifications *)

EmptyTable == [x \in {} |-> None]

Init ==
    /\ processes = EmptyTable
    /\ transcripts = EmptyTable
    /\ now = 0
    /\ env \in {{"ANTHROPIC_API_KEY"}, {"ANTHROPIC_API_KEY", "GROQ_API_KEY"}}
    /\ task = [id \in ProcIds |-> IdleTask]
    /\ lastPoll = [id \in ProcIds |-> None]
    /\ terminalSeen = [id \in ProcIds |-> {}]
    /\ apiResponse = None
    /\ mockAudio = NewMockAudioService
    /\ audio = NewAudioService
    /\ recorder = [s \in SessionIds |-> [src \in Sources |-> NoThread]]
    /\ stopCall = [s \in SessionIds |-> NoCall]
    /\ summarized = None

\* the ids of the jobs followed from creation to the terminal write
JobIds == {"p1"}

\* A job: its record is created once, its transcript saved once, and one
\* background task is run for it; clients poll with the process id once
\* the task has been scheduled.
Next ==
    \E id \in JobIds :
         \/ ~HasRecord(processes, id) /\ CreateProcess(id)
         \/ \E req \in Requests :
              /\ HasRecord(processes, id)
              /\ id \notin DOMAIN transcripts
              /\ SaveTranscript(id, req)
         \/ /\ id \in DOMAIN transcripts
            /\ StartTask(id, Request(transcripts[id].transcript_text,
                                     transcripts[id].model,
                                     transcripts[id].chunk_size,
                                     transcripts[id].overlap))
         \/ \E collection_ok \in BOOLEAN : ProcessTranscript(id, collection_ok)
         \/ \E outcome \in ChunkOutcomes : RunChunk(id, outcome)
         \/ AggregateStep(id)
         \/ FinishAggregate(id)
         \/ \E raises \in BOOLEAN : UpdateMeetingName(id, raises)
         \/ \E raises \in BOOLEAN : WriteCompleted(id, raises)
         \/ \E raises \in BOOLEAN : WriteFailed(id, raises)
         \/ \E raises \in BOOLEAN :
              /\ task[id].pc # "idle"
              /\ GetSummary(id, raises)

Spec == Init /\ [][Next]_vars

\* The endpoints and the job store under any sequence of calls
StoreIds == {"p1"}

ApiRequests ==
    {Request(<<"a", "b">>, "ollama", 2, 1), Request(<<>>, "ollama", 2, 1),
     Request(<<"a", "b">>, "ollama", 0, 0)}

NextStore ==
    \/ \E req \in ApiRequests : ProcessTranscriptApi(req)
    \/ \E id \in StoreIds :
         \/ CreateProcess(id)
         \/ \E a \in StoreUpdates : UpdateProcess(id, a)
         \/ \E req \in {Request(<<"a", "b">>, "ollama", 2, 1)} :
              SaveTranscript(id, req)
         \/ \E raises \in BOOLEAN : GetSummary(id, raises)

SpecStore == Init /\ [][NextStore]_vars

\* A job whose id may be submitted again: create_process is called for an
\* id that already has a record
NextRerun ==
    \/ Next
    \/ \E id \in JobIds : HasRecord(processes, id) /\ CreateProcess(id)

SpecRerun == Init /\ [][NextRerun]_vars

\* The chunking of a transcript, reached through SummaryProcessor (StartTask,
\* ProcessTranscript) or by a direct call of TranscriptProcessor, for every
\* text up to MaxTextLen, chunk_size in 1..MaxChunkSize and overlap below,
\* at and above chunk_size
ChunkRequests ==
    {Request(text, "ollama", chunk_size, overlap) :
        text \in Texts, chunk_size \in 1..MaxChunkSize,
        overlap \in 0..(MaxChunkSize + 1)}

NextChunking ==
    \E id \in JobIds :
        \/ \E req \in ChunkRequests : StartTask(id, req)
        \/ \E collection_ok \in BOOLEAN : ProcessTranscript(id, collection_ok)
        \/ \E req \in ChunkRequests : TranscriptProcessorCall(id, req)

SpecChunking == Init /\ [][NextChunking]_vars

\* the update_process calls made on the store while the clock advances
ClockUpdates ==
    {UpdateArgs("COMPLETED", Some(r), None, None, None, None) :
        r \in {JDict(SampleSummary), JsonDumps(JDict(SampleSummary)),
               JEmptyDict, JDictIntKeys}}
    \cup
    {UpdateArgs("COMPLETED", None, None, None, None, Some(JDict(SampleSummary))),
     UpdateArgs("COMPLETED", None, None, None, None, Some(JEmptyDict)),
     UpdateArgs("FAILED", None, Some(<<"boom">>), None, None, None),
     UpdateArgs("FAILED", None, Some(<<>>), None, None, None),
     UpdateArgs("processing", None, None, Some(3), Some(2), None),
     UpdateArgs("processing", None, None, Some(0), None, None),
     UpdateArgs("processing", None, None, None, None, None)}

\* The job store called directly, with time passing between the calls
NextClock ==
    \/ Tick
    \/ \E id \in StoreIds :
         \/ CreateProcess(id)
         \/ \E a \in ClockUpdates : UpdateProcess(id, a)

SpecClock == Init /\ [][NextClock]_vars

\* the SummaryResponse the model gives for a chunk of the job of id: the
\* transcripts of two jobs differ, and so do the names and blocks extracted
JobSummary(id) ==
    SummaryDict(IF id = "p1" THEN "Standup" ELSE "Retro", ModelTitle,
                [NoBlocks EXCEPT !["SectionSummary"] =
                                     IF id = "p1" THEN <<"b1">> ELSE <<"b2">>])

\* what a model call for a chunk of the job of id may do
PairOutcomes(id) ==
    {Outcome("summary", Some(JobSummary(id))), Outcome("malformed", None)}

\* the requests of two jobs that run side by side
PairRequests ==
    {Request(<<"a", "b">>, "ollama", 1, 0), Request(<<"a">>, "ollama", 0, 0),
     Request(<<"a">>, "gpt", 2, 1)}

\* self.collection of the one TranscriptProcessor all tasks share is set:
\* some task has come past 'if not self.collection' and the initialisation
PassedCollectionCheck(id) ==
    \/ task[id].k >= 1
    \/ /\ ~IsNone(task[id].transcript)
       /\ \E n \in DOMAIN task[id].raised :
            /\ task[id].raised[n].where = "processing"
            /\ Some(task[id].raised[n].msg)
                 = ProviderError(Val(task[id].transcript).model, env)

CollectionInitialized == \E id \in ProcIds : PassedCollectionCheck(id)

\* Two jobs with different process ids whose background tasks interleave at
\* every await (model calls and store calls)
NextPair ==
    \E id \in ProcIds :
         \/ ~HasRecord(processes, id) /\ CreateProcess(id)
         \/ \E req \in PairRequests :
              /\ HasRecord(processes, id)
              /\ id \notin DOMAIN transcripts
              /\ SaveTranscript(id, req)
         \/ /\ id \in DOMAIN transcripts
            /\ StartTask(id, Request(transcripts[id].transcript_text,
                                     transcripts[id].model,
                                     transcripts[id].chunk_size,
                                     transcripts[id].overlap))
         \/ \E collection_ok \in BOOLEAN :
              /\ CollectionInitialized => collection_ok
              /\ ProcessTranscript(id, collection_ok)
         \/ \E outcome \in PairOutcomes(id) : RunChunk(id, outcome)
         \/ AggregateStep(id)
         \/ FinishAggregate(id)
         \/ \E raises \in BOOLEAN : UpdateMeetingName(id, raises)
         \/ \E raises \in BOOLEAN : WriteCompleted(id, raises)
         \/ \E raises \in BOOLEAN : WriteFailed(id, raises)

SpecPair == Init /\ [][NextPair]_vars

\* the ages, in hours, the retention sweep is called with
CleanupHours == 0..1

\* The retention sweep next to a running job: the job of JobIds is created,
\* saved and run by its task; the other ids have records that are created
\* and completed by direct calls; time passes and cleanup_old_processes is
\* called at any moment
NextCleanup ==
    \/ Tick
    \/ \E hours \in CleanupHours : CleanupOldProcesses(hours)
    \/ \E id \in ProcIds \ JobIds :
         \/ ~HasRecord(processes, id) /\ CreateProcess(id)
         \/ /\ HasRecord(processes, id)
            /\ processes[id].status = "PENDING"
            /\ UpdateProcess(id, UpdateArgs("COMPLETED",
                                            Some(JDict(SampleSummary)),
                                            None, None, None, None))
    \/ \E id \in JobIds :
         \/ /\ ~HasRecord(processes, id)
            /\ id \notin DOMAIN transcripts
            /\ CreateProcess(id)
         \/ \E req \in PairRequests :
              /\ HasRecord(processes, id)
              /\ id \notin DOMAIN transcripts
              /\ SaveTranscript(id, req)
         \/ /\ id \in DOMAIN transcripts
            /\ StartTask(id, Request(transcripts[id].transcript_text,
                                     transcripts[id].model,
                                     transcripts[id].chunk_size,
                                     transcripts[id].overlap))
         \/ \E collection_ok \in BOOLEAN : ProcessTranscript(id, collection_ok)
         \/ \E outcome \in PairOutcomes(id) : RunChunk(id, outcome)
         \/ AggregateStep(id)
         \/ FinishAggregate(id)
         \/ \E raises \in BOOLEAN : UpdateMeetingName(id, raises)
         \/ \E raises \in BOOLEAN : WriteCompleted(id, raises)
         \/ \E raises \in BOOLEAN : WriteFailed(id, raises)

SpecCleanup == Init /\ [][NextCleanup]_vars

\* The summarization services called with any of the sample texts, the
\* real one with any of the answers of the model behind it.
NextSummarize ==
    \/ \E text \in SummaryTexts, answer \in Answers :
          SummarizeCall(text, answer)
    \/ \E text \in SummaryTexts : MockSummarizeCall(text)

SpecSummarize == Init /\ [][NextSummarize]_vars

\* The mock audio service used by any caller: sessions are started, fed
\* and stopped in any order, known or not.
NextMockAudio ==
    \/ \E s \in SessionIds : MockStartRecording(s)
    \/ \E s \in SessionIds, c \in AudioChunks : MockAddAudioChunk(s, c)
    \/ \E s \in SessionIds : MockStopRecording(s)

SpecMockAudio == Init /\ [][NextMockAudio]_vars

\* the session the audio service records; the other ids are never started
RecordedIds == {"s1"}

\* The audio service with its recording threads, and stop_recording called
\* on any id at any moment; next to it the mock service, started and
\* stopped.
NextAudio ==
    \/ \E s \in RecordedIds, blackhole \in BOOLEAN, mic \in BOOLEAN :
          StartRecording(s, blackhole, mic)
    \/ \E s \in RecordedIds, src \in Sources, opened \in BOOLEAN :
          RecordOpen(s, src, opened)
    \/ \E s \in RecordedIds, src \in Sources : RecordLoop(s, src)
    \/ \E s \in RecordedIds, src \in Sources, os_error \in BOOLEAN :
          RecordFrame(s, src, os_error)
    \/ \E s \in SessionIds : StopRecording(s)
    \/ \E s \in SessionIds, timeout \in BOOLEAN : StopJoin(s, timeout)
    \/ \E s \in SessionIds : StopDrain(s)
    \/ \E s \in SessionIds, written \in BOOLEAN : StopFinish(s, written)
    \/ \E s \in RecordedIds : MockStartRecording(s)
    \/ \E s \in SessionIds : MockStopRecording(s)

SpecAudio == Init /\ [][NextAudio]_vars

\* The steps of the background task of id.  The event loop resumes a task
\* whenever the call it awaits has returned or raised.
TaskStep(id) ==
    \/ \E collection_ok \in BOOLEAN : ProcessTranscript(id, collection_ok)
    \/ \E outcome \in ChunkOutcomes : RunChunk(id, outcome)
    \/ AggregateStep(id)
    \/ FinishAggregate(id)
    \/ \E raises \in BOOLEAN : UpdateMeetingName(id, raises)
    \/ \E raises \in BOOLEAN : WriteCompleted(id, raises)
    \/ \E raises \in BOOLEAN : WriteFailed(id, raises)

FairSpec == Spec /\ \A id \in JobIds : WF_vars(TaskStep(id))

-----------------------------------------------------------------------------
(* Properties *)

IsTerminal(status) == Lower(status) \in {"completed", "failed"}

\* a terminal write of the task of id has taken effect
WroteTerminal(id) ==
    \E n \in DOMAIN task[id].writes : task[id].writes[n].ok

StoreWorked(id) ==
    \A n \in DOMAIN task[id].raised : task[id].raised[n].msg # StoreError

\* the task of id has issued update_process with this status and error
AttemptedWrite(id, status, error) ==
    \E n \in DOMAIN task[id].writes :
        /\ task[id].writes[n].status = status
        /\ task[id].writes[n].error = error

\* C2: no exception escapes process_transcript_background: an exception
\* raised inside the try block leads to an update_process(status failed,
\* error = its message) attempt, and an exception raised by that write is
\* caught and logged.
C2_NoExceptionEscapes ==
    \A id \in ProcIds :
        /\ ~task[id].escaped
        /\ \A n \in DOMAIN task[id].raised :
             LET e == task[id].raised[n] IN
             IF e.where = "failed_write"
             THEN task[id].logged /\ task[id].pc = "done"
             ELSE \/ /\ task[id].pc = "failed_write"
                     /\ task[id].error_msg = Some(e.msg)
                  \/ AttemptedWrite(id, "failed", Some(e.msg))

\* a task whose completed-status write raised and whose failed-status
\* write raised too
C2_Witness ==
    \E id \in ProcIds :
        /\ task[id].pc = "done"
        /\ Len(task[id].raised) = 2
        /\ task[id].raised[1].where = "completed_write"
        /\ task[id].raised[2].where = "failed_write"
        /\ task[id].logged

\* C3: under fair scheduling every started task terminates after having
\* attempted a terminal status write, and if none of its store calls
\* raised, the record has left PENDING.
C3_TaskTerminates ==
    \A id \in JobIds :
        (task[id].pc = "processing")
        ~> (/\ task[id].pc = "done"
            /\ \/ AttemptedWrite(id, "failed", task[id].error_msg)
               \/ \E n \in DOMAIN task[id].writes :
                     task[id].writes[n].status = "completed"
            /\ StoreWorked(id) => processes[id].status # "PENDING")

\* a finished task whose store calls all returned
C3_Witness ==
    \E id \in JobIds :
        /\ task[id].pc = "done"
        /\ StoreWorked(id)
        /\ task[id].num_chunks = MaxTextLen
        /\ processes[id].status = "completed"

\* C4: every response of get_summary has status processing, completed or
\* error, carries data only when completed, and has an error field exactly
\* when its status is error.
C4_ResponseShape ==
    \A id \in ProcIds :
        ~IsNone(lastPoll[id]) =>
            LET r == Val(lastPoll[id]) IN
            /\ r.status \in {"processing", "completed", "error"}
            /\ ~IsNone(r.data) => r.status = "completed"
            /\ ~IsNone(r.error) <=> r.status = "error"

\* a poll of a record whose status was stored in upper case and whose
\* result is a dict answered completed with data
C4_Witness ==
    \E id \in ProcIds :
        /\ ~IsNone(lastPoll[id])
        /\ Val(lastPoll[id]).status = "completed"
        /\ ~IsNone(Val(lastPoll[id]).data)
        /\ HasRecord(processes, id)
        /\ processes[id].status = "COMPLETED"

\* the stored status of a job stays PENDING until a terminal write of its
\* task has taken effect
StaysPendingUntilTerminalWrite ==
    \A id \in JobIds :
        (HasRecord(processes, id) /\ ~WroteTerminal(id))
        => processes[id].status = "PENDING"

\* C5 (as claimed): the stored status stays PENDING until the terminal
\* write, and once a poll has returned completed or error, the next poll
\* of that job returns the same status.
C5_PollsNeverLeaveTerminal ==
    /\ []StaysPendingUntilTerminalWrite
    /\ [][\A id \in JobIds :
            (/\ ~IsNone(lastPoll[id])
             /\ Val(lastPoll[id]).status \in {"completed", "error"})
            => Val(lastPoll'[id]).status = Val(lastPoll[id]).status]_vars

\* C5 (amended): the stored status stays PENDING until the terminal write,
\* and among the polls answered from the job record (HTTP 202, 200, 400)
\* once one has returned completed or error every later one returns that
\* same status; a poll whose store read raises answers error (HTTP 500)
\* whatever the job's status.
C5_RecordPollsNeverLeaveTerminal ==
    /\ []StaysPendingUntilTerminalWrite
    /\ [](\A id \in JobIds : Cardinality(terminalSeen[id]) <= 1)
    /\ [][\A id \in JobIds :
            (/\ terminalSeen[id] # {}
             /\ lastPoll'[id] # lastPoll[id]
             /\ Val(lastPoll'[id]).code \in {200, 202, 400})
            => Val(lastPoll'[id]).status \in terminalSeen[id]]_vars

\* a job polled as completed whose next poll hit a store failure
C5_Witness ==
    \E id \in JobIds :
        /\ terminalSeen[id] = {"completed"}
        /\ Val(lastPoll[id]).code = 500

-----------------------------------------------------------------------------
(* The submit endpoint *)

\* a request that passes the checks of SummaryProcessor.process_transcript
WellFormed(req) ==
    IsNone(ValidationError(req.text, req.chunk_size, req.overlap))

\* the step is a call of process_transcript_api that produced a response
Submitted == apiResponse' # apiResponse

\* C6: every submission of a well-formed request is answered 200 with a
\* process_id, and after it the record of that id exists with status
\* PENDING, the transcript and its parameters are saved under that id, and
\* the background task of that id is scheduled (and has not run yet).
C6_SubmitCreatesPendingJob ==
    [][(Submitted /\ WellFormed(Val(apiResponse').request)) =>
        LET r == Val(apiResponse') IN
        /\ r.code = 200
        /\ ~IsNone(r.process_id)
        /\ LET pid == Val(r.process_id) IN
           /\ HasRecord(processes', pid)
           /\ processes'[pid].status = "PENDING"
           /\ pid \in DOMAIN transcripts'
           /\ transcripts'[pid].transcript_text = r.request.text
           /\ transcripts'[pid].chunk_size = r.request.chunk_size
           /\ transcripts'[pid].overlap = r.request.overlap
           /\ task'[pid].pc = "processing"
           /\ task'[pid].transcript = Some(r.request)]_vars

\* C7: every submission with empty text or with chunk_size <= 0 is answered
\* with the validation error of that request, and the submission creates no
\* job record, saves no transcript and schedules no task.
C7_InvalidRejectedSynchronously ==
    [][(Submitted /\ LET req == Val(apiResponse').request
                     IN req.text = <<>> \/ req.chunk_size <= 0) =>
        LET r == Val(apiResponse') IN
        /\ r.code # 200
        /\ r.detail = ValidationError(r.request.text, r.request.chunk_size,
                                      r.request.overlap)
        /\ processes' = processes
        /\ transcripts' = transcripts
        /\ task' = task]_vars

-----------------------------------------------------------------------------
(* Aggregation *)

\* the chunk result encoded by an element of all_json_data
ChunkResult(json_str) == JsonLoads(json_str).val

\* A.blocks ++ B.blocks ++ ... for the section key over a list of results
RECURSIVE ConcatBlocks(_, _)
ConcatBlocks(jsons, key) ==
    IF jsons = <<>> THEN <<>>
    ELSE ChunkResult(Head(jsons)).sections[key].blocks
         \o ConcatBlocks(Tail(jsons), key)

\* the chunk results aggregated so far by the task of id
Aggregated(id) == SubSeq(task[id].all_json_data, 1, task[id].k - 1)

\* the aggregation loop of the task of id is over
AggregationOver(id) ==
    task[id].pc \in {"name_write", "completed_write"}
    \/ \E n \in DOMAIN task[id].writes : task[id].writes[n].status = "completed"

\* the aggregate the task of id handed to the store as the job's result
WrittenSummaries(id) ==
    {JsonLoads(Val(task[id].writes[n].result)).val :
        n \in {m \in DOMAIN task[id].writes :
                 task[id].writes[m].status = "completed"}}

\* C8: during aggregation every section's blocks are the concatenation, in
\* chunk order, of that section's blocks over the chunk results aggregated so
\* far; once the loop is over they are the concatenation over the whole
\* list, and that is what is written as the job's result.
C8_BlocksAreConcatenation ==
    \A id \in JobIds : \A key \in SectionKeys :
        /\ task[id].final_summary.sections[key].blocks
             = ConcatBlocks(Aggregated(id), key)
        /\ AggregationOver(id) =>
             /\ Aggregated(id) = task[id].all_json_data
             /\ \A w \in WrittenSummaries(id) :
                  w.sections[key].blocks
                    = ConcatBlocks(task[id].all_json_data, key)

\* two chunk results that both have blocks in one section were aggregated
C8_Witness ==
    \E id \in JobIds :
        /\ task[id].pc = "done"
        /\ WrittenSummaries(id) # {}
        /\ Len(task[id].all_json_data) = 3
        /\ \E key \in SectionKeys :
             /\ ChunkResult(task[id].all_json_data[1]).sections[key].blocks # <<>>
             /\ ChunkResult(task[id].all_json_data[2]).sections[key].blocks = <<>>
             /\ ChunkResult(task[id].all_json_data[3]).sections[key].blocks # <<>>
             /\ Len(task[id].final_summary.sections[key].blocks) >= 2

\* the positions of the chunk results with a non-empty MeetingName
Named(jsons) == {n \in DOMAIN jsons : ChunkResult(jsons[n]).MeetingName # ""}

\* the MeetingName of the last chunk result that has one, else ""
LastName(jsons) ==
    IF Named(jsons) = {} THEN ""
    ELSE ChunkResult(jsons[CHOOSE n \in Named(jsons) :
                             \A m \in Named(jsons) : m <= n]).MeetingName

\* C9: the aggregate's MeetingName is that of the last chunk result
\* aggregated so far whose MeetingName is non-empty, and "" when there is
\* none; the name written as part of the job's result is that of the last
\* named chunk result of the whole list.
C9_LastNonEmptyName ==
    \A id \in JobIds :
        /\ task[id].final_summary.MeetingName = LastName(Aggregated(id))
        /\ \A w \in WrittenSummaries(id) :
             w.MeetingName = LastName(task[id].all_json_data)

\* a named chunk result was followed by one with an empty name
C9_Witness ==
    \E id \in JobIds :
        /\ WrittenSummaries(id) # {}
        /\ Len(task[id].all_json_data) = 3
        /\ Named(task[id].all_json_data) = {1, 2}
        /\ ChunkResult(task[id].all_json_data[1]).MeetingName
             # ChunkResult(task[id].all_json_data[2]).MeetingName
        /\ task[id].final_summary.MeetingName
             = ChunkResult(task[id].all_json_data[2]).MeetingName

\* C10: at every step of the task the aggregate has exactly the seven
\* section keys in the fixed order, each with its constant title; when no
\* chunk result was produced the aggregate, and the result written, is the
\* empty summary: seven sections without blocks and an empty MeetingName.
C10_SevenSectionsConstantTitles ==
    \A id \in JobIds :
        LET final == task[id].final_summary
            Shaped(s) ==
                /\ s.order = SectionOrder
                /\ DOMAIN s.sections = SectionKeys
                /\ \A key \in SectionKeys :
                     s.sections[key].title = SectionTitle(key)
            Empty(s) ==
                /\ s.MeetingName = ""
                /\ \A key \in SectionKeys : s.sections[key].blocks = <<>>
        IN /\ Shaped(final)
           /\ \A w \in WrittenSummaries(id) : Shaped(w)
           /\ (AggregationOver(id) /\ task[id].all_json_data = <<>>) =>
                /\ Shaped(final) /\ Empty(final)
                /\ \A w \in WrittenSummaries(id) : Empty(w)

\* chunk results with titles of their own were aggregated and written
C10_Witness ==
    \E id \in JobIds :
        /\ WrittenSummaries(id) # {}
        /\ Len(task[id].all_json_data) >= 2
        /\ \A n \in DOMAIN task[id].all_json_data : \A key \in SectionKeys :
             ChunkResult(task[id].all_json_data[n]).sections[key].title
               # SectionTitle(key)

-----------------------------------------------------------------------------
(* Chunking *)

CeilDiv(a, b) == (a + b - 1) \div b

\* text[start : start + width], positions counted from 0
Slice(text, start, width) ==
    SubSeq(text, start + 1, Min(start + width, Len(text)))

\* the first step characters of every window but the last, then the last
RECURSIVE Reassembled(_, _)
Reassembled(chunks, step) ==
    IF chunks = <<>> THEN <<>>
    ELSE IF Len(chunks) = 1 THEN chunks[1]
    ELSE SubSeq(Head(chunks), 1, step) \o Reassembled(Tail(chunks), step)

\* the task of id has split its transcript
HasSplit(id) == task[id].pc \in {"chunk", "returned", "aggregate"}

\* C11: for chunk_size > 0 and 0 <= overlap < chunk_size the windows are
\* text[k*step : k*step + chunk_size] for k = 0 .. ceil(len(text)/step) - 1
\* in that order, their number is ceil(len(text)/step), and the first step
\* characters of every window but the last followed by the last window
\* give back the text.
C11_WindowsSlideByStep ==
    \A id \in JobIds :
        LET req == Val(task[id].transcript)
            step == req.chunk_size - req.overlap
            chunks == task[id].chunks
        IN (HasSplit(id) /\ req.chunk_size > 0 /\ req.overlap >= 0
            /\ req.overlap < req.chunk_size)
           => /\ Len(chunks) = CeilDiv(Len(req.text), step)
              /\ task[id].num_chunks = Len(chunks)
              /\ \A k \in 0..(Len(chunks) - 1) :
                   chunks[k + 1] = Slice(req.text, k * step, req.chunk_size)
              /\ Reassembled(chunks, step) = req.text

\* a text split into overlapping windows with a shorter final window
C11_Witness ==
    \E id \in JobIds :
        /\ HasSplit(id)
        /\ Val(task[id].transcript).chunk_size = 3
        /\ Val(task[id].transcript).overlap = 1
        /\ Len(task[id].chunks) = 2
        /\ Len(task[id].chunks[2]) = 1

\* the exception raised by processing in the task of id, if any
ProcessingRaised(id) ==
    \E n \in DOMAIN task[id].raised : task[id].raised[n].where = "processing"

\* the task of id has gone through SummaryProcessor.process_transcript
\* (a direct call of TranscriptProcessor leaves k at 0)
ThroughSummaryProcessor(id) ==
    /\ task[id].pc \notin {"idle", "processing", "returned", "raised"}
    /\ task[id].pc = "chunk" => task[id].k = 1

\* C12: through SummaryProcessor.process_transcript, with a working
\* collection, a non-empty text, chunk_size > 0 and overlap >= chunk_size,
\* nothing is raised and the windows are those of width chunk_size that
\* advance by a step of 1, i.e. those of overlap chunk_size - 1.
C12_OverlapRepairedToStepOne ==
    \A id \in JobIds :
        LET req == Val(task[id].transcript)
            chunks == task[id].chunks
        IN (ThroughSummaryProcessor(id)
            /\ req.text # <<>> /\ req.chunk_size > 0
            /\ req.overlap >= req.chunk_size)
           => \/ \E n \in DOMAIN task[id].raised :
                   task[id].raised[n].msg = <<"chroma error">>
              \/ /\ ~ProcessingRaised(id)
                 /\ Len(chunks) = Len(req.text)
                 /\ \A k \in 0..(Len(chunks) - 1) :
                      chunks[k + 1] = Slice(req.text, k, req.chunk_size)
                 /\ chunks = SplitChunks(req.text, req.chunk_size,
                                         req.chunk_size - 1)

\* an overlap above chunk_size was repaired: a three character text gives
\* three windows of width up to two
C12_Witness ==
    \E id \in JobIds :
        /\ task[id].pc = "chunk"
        /\ task[id].k = 1
        /\ Val(task[id].transcript).chunk_size = 2
        /\ Val(task[id].transcript).overlap = 3
        /\ Len(task[id].chunks) = 3
        /\ Len(task[id].chunks[1]) = 2

-----------------------------------------------------------------------------
(* Failures of model calls *)

\* the chunk results of the calls that returned a summary, in call order
RECURSIVE SurvivingResults(_)
SurvivingResults(calls) ==
    IF calls = <<>> THEN <<>>
    ELSE IF Head(calls).kind = "summary"
         THEN <<JsonDumps(JDict(Val(Head(calls).result)))>>
              \o SurvivingResults(Tail(calls))
         ELSE SurvivingResults(Tail(calls))

\* the model calls of the task of id that failed
FailedCalls(id, kind) ==
    {n \in DOMAIN task[id].calls : task[id].calls[n].kind = kind}

\* every model call of the task of id returned a summary or failed with
\* malformed output after its retries
OnlyMalformedFailures(id) ==
    \A n \in DOMAIN task[id].calls :
        task[id].calls[n].kind \in {"summary", "malformed"}

\* the chunk loop of the task of id has been left
ChunkLoopLeft(id) ==
    task[id].calls # <<>> /\ task[id].pc # "chunk"

\* C13: when the only failures are chunks whose summarization failed after
\* its retries, the job does not abort: every chunk is tried, in order; the
\* results aggregated are exactly those of the chunks that did not fail, in
\* chunk order; and with a working store the job ends completed with that
\* aggregate as its result.
C13_FailedChunksAreSkipped ==
    \A id \in JobIds :
        (ChunkLoopLeft(id) /\ OnlyMalformedFailures(id))
        => /\ Len(task[id].calls) = task[id].num_chunks
           /\ \A n \in DOMAIN task[id].calls : task[id].calls[n].chunk = n
           /\ task[id].all_json_data = SurvivingResults(task[id].calls)
           /\ \A n \in DOMAIN task[id].raised :
                task[id].raised[n].msg = StoreError
           /\ \A w \in WrittenSummaries(id) :
                /\ w.MeetingName = LastName(SurvivingResults(task[id].calls))
                /\ \A key \in SectionKeys :
                     w.sections[key].blocks
                       = ConcatBlocks(SurvivingResults(task[id].calls), key)
           /\ (task[id].pc = "done" /\ StoreWorked(id))
                => /\ processes[id].status = "completed"
                   /\ WrittenSummaries(id) # {}

\* a job of three chunks whose second chunk failed ended completed with
\* the blocks of chunks one and three
C13_Witness ==
    \E id \in JobIds :
        /\ task[id].pc = "done"
        /\ processes[id].status = "completed"
        /\ task[id].num_chunks = 3
        /\ FailedCalls(id, "malformed") = {2}
        /\ FailedCalls(id, "summary") = {1, 3}
        /\ Len(task[id].final_summary.sections["SectionSummary"].blocks) = 2

\* C14: a transport failure of a model call is fatal to the job: no later
\* chunk is summarized and the job never gets a completed-status write.
C14_TransportFailureIsFatal ==
    \A id \in JobIds :
        \A n \in FailedCalls(id, "transport") :
            /\ n = Len(task[id].calls)
            /\ task[id].pc \in {"failed_write", "done"}
            /\ WrittenSummaries(id) = {}
            /\ (task[id].pc = "done" /\ StoreWorked(id))
                 => processes[id].status = "failed"

-----------------------------------------------------------------------------
(* Provider selection *)

\* the credential the provider of a request needs
CredentialOf(model) ==
    CASE model = "claude" -> "ANTHROPIC_API_KEY"
      [] model = "groq" -> "GROQ_API_KEY"

\* the task of id has passed the checks that precede provider selection:
\* its request is valid and the collection could be initialised
ReachedProviderSelection(id) ==
    /\ task[id].pc \notin {"idle", "processing"}
    /\ WellFormed(Val(task[id].transcript))
    /\ \A n \in DOMAIN task[id].raised :
         task[id].raised[n].msg # <<"chroma error">>

\* the exceptions raised in the task of id before its chunk loop
RaisedInProcessing(id) ==
    {n \in DOMAIN task[id].raised : task[id].raised[n].where = "processing"}

\* C15: when the provider needs a credential that is not set, processing
\* raises once, before the text is chunked and before any model call: the
\* task has no chunks and no model call, never writes completed, and with
\* a working store the record ends failed with the missing credential as
\* its error.
C15_MissingCredentialFailsFast ==
    \A id \in JobIds :
        LET req == Val(task[id].transcript) IN
        (/\ ReachedProviderSelection(id)
         /\ req.model \in {"claude", "groq"}
         /\ CredentialOf(req.model) \notin env)
        => /\ task[id].calls = <<>>
           /\ task[id].chunks = <<>>
           /\ task[id].all_json_data = <<>>
           /\ Cardinality(RaisedInProcessing(id)) = 1
           /\ task[id].raised[1].msg =
                IF req.model = "groq" THEN <<"GROQ_API_KEY not set">>
                ELSE <<"ANTHROPIC_API_KEY not set">>
           /\ task[id].error_msg = Some(task[id].raised[1].msg)
           /\ WrittenSummaries(id) = {}
           /\ (task[id].pc = "done" /\ StoreWorked(id))
                => /\ processes[id].status = "failed"
                   /\ processes[id].error = task[id].error_msg

\* a groq job run without GROQ_API_KEY ended failed without a model call
C15_Witness ==
    \E id \in JobIds :
        /\ task[id].pc = "done"
        /\ Val(task[id].transcript).model = "groq"
        /\ "GROQ_API_KEY" \notin env
        /\ task[id].calls = <<>>
        /\ processes[id].status = "failed"
        /\ processes[id].error = Some(<<"GROQ_API_KEY not set">>)

SupportedProviders == {"claude", "ollama", "groq"}

\* the task of id runs a request whose provider is not supported
UnsupportedJob(id) ==
    /\ ReachedProviderSelection(id)
    /\ Val(task[id].transcript).model \notin SupportedProviders

\* C16: a job whose provider is not supported makes no model call; its
\* task ends, and with a working store its record is then failed with an
\* error text that names the provider; every poll made once the record is
\* failed returns status error with data null.
C16_UnsupportedProviderFails ==
    /\ [](\A id \in JobIds :
            UnsupportedJob(id)
            => /\ task[id].calls = <<>>
               /\ task[id].error_msg
                    = Some(<<"Unsupported model provider: ",
                             Val(task[id].transcript).model>>)
               /\ WrittenSummaries(id) = {}
               /\ WroteTerminal(id)
                    => /\ processes[id].status = "failed"
                       /\ processes[id].error = task[id].error_msg)
    /\ \A id \in JobIds :
         UnsupportedJob(id)
         ~> (task[id].pc = "done"
             /\ (StoreWorked(id) => processes[id].status = "failed"))
    /\ [][\A id \in JobIds :
            (/\ UnsupportedJob(id)
             /\ processes[id].status = "failed"
             /\ lastPoll'[id] # lastPoll[id])
            => /\ Val(lastPoll'[id]).status = "error"
               /\ IsNone(Val(lastPoll'[id]).data)]_vars

\* a failed job with an unsupported provider was polled
C16_Witness ==
    \E id \in JobIds :
        /\ UnsupportedJob(id)
        /\ processes[id].status = "failed"
        /\ processes[id].error = Some(<<"Unsupported model provider: ", "gpt">>)
        /\ ~IsNone(lastPoll[id])
        /\ Val(lastPoll[id]).code = 400
        /\ Val(lastPoll[id]).status = "error"

-----------------------------------------------------------------------------
(* The job store under a running clock *)

\* get_process(id) after the step
Got(id) == Val(GetProcess(processes', id))

Updates(id, a) == HasRecord(processes, id) /\ UpdateProcess(id, a)

\* C18 (as claimed): after update_process(id, COMPLETED, result=R) on an
\* existing record, get_process(id).result is R, and end_time is set and
\* not earlier than start_time.
C18_ResultRoundTrip ==
    [][\A id \in StoreIds : \A a \in ClockUpdates :
         (Updates(id, a) /\ a.status = "COMPLETED" /\ ~IsNone(a.result))
         => /\ Got(id).result = a.result
            /\ ~IsNone(Got(id).end_time)
            /\ Val(Got(id).end_time) >= Val(Got(id).start_time)]_vars

\* C18 (amended): after update_process(id, 'COMPLETED', result=R) on an
\* existing record, end_time is the time of the call and not earlier than
\* start_time; get_process(id).result is json.loads(json.dumps(R)) when R
\* is not empty, which is R itself when R has only string keys, and is
\* what it was before the call when R is empty.
C18_NonEmptyResultRoundTrip ==
    [][\A id \in StoreIds : \A a \in ClockUpdates :
         (Updates(id, a) /\ a.status = "COMPLETED" /\ ~IsNone(a.result))
         => /\ Got(id).end_time = Some(now)
            /\ Val(Got(id).end_time) >= Val(Got(id).start_time)
            /\ Got(id).status = "COMPLETED"
            /\ LET R == Val(a.result) IN
               IF ~Truthy(R)
               THEN Got(id).result = Val(GetProcess(processes, id)).result
               ELSE /\ Got(id).result = Some(JsonValue(R))
                    /\ R # JDictIntKeys => Got(id).result = Some(R)]_vars

\* a record completed with a summary some time after it was created
C18_Witness ==
    \E id \in StoreIds :
        /\ HasRecord(processes, id)
        /\ processes[id].status = "COMPLETED"
        /\ Val(GetProcess(processes, id)).result = Some(JDict(SampleSummary))
        /\ Val(processes[id].end_time) > Val(processes[id].start_time)

\* C19 (as claimed): update_process stores each of result, error,
\* chunk_count, processing_time and metadata with the supplied value when
\* it is supplied and leaves it unchanged when it is omitted; created_at
\* and start_time do not change; updated_at is the time of the update.
C19_PartialPatch ==
    [][\A id \in StoreIds : \A a \in ClockUpdates :
         Updates(id, a)
         => LET old == Val(GetProcess(processes, id)) IN
            /\ Got(id).result = IF IsNone(a.result) THEN old.result
                                ELSE a.result
            /\ Got(id).error = IF IsNone(a.error) THEN old.error
                               ELSE a.error
            /\ Got(id).metadata = IF IsNone(a.metadata) THEN old.metadata
                                  ELSE a.metadata
            /\ Got(id).chunk_count = IF IsNone(a.chunk_count)
                                     THEN old.chunk_count
                                     ELSE Val(a.chunk_count)
            /\ Got(id).processing_time = IF IsNone(a.processing_time)
                                         THEN old.processing_time
                                         ELSE Val(a.processing_time)
            /\ Got(id).created_at = old.created_at
            /\ Got(id).start_time = old.start_time
            /\ Got(id).updated_at = now]_vars

\* C19 (amended): update_process stores result, error and metadata when
\* the supplied value is not empty (result and metadata as JSON text, read
\* back as json.loads of it) and leaves them unchanged when the value is
\* omitted or empty; it stores chunk_count and processing_time whenever
\* they are supplied, 0 included, and leaves them unchanged otherwise;
\* created_at and start_time do not change; status is the supplied status
\* and updated_at the time of the update.
C19_PatchOfNonEmptyValues ==
    [][\A id \in StoreIds : \A a \in ClockUpdates :
         Updates(id, a)
         => LET old == Val(GetProcess(processes, id)) IN
            /\ Got(id).result =
                 IF IsNone(a.result) \/ ~Truthy(Val(a.result))
                 THEN old.result ELSE Some(JsonValue(Val(a.result)))
            /\ Got(id).error =
                 IF IsNone(a.error) \/ Val(a.error) = <<>>
                 THEN old.error ELSE a.error
            /\ Got(id).metadata =
                 IF IsNone(a.metadata) \/ ~Truthy(Val(a.metadata))
                 THEN old.metadata ELSE Some(JsonValue(Val(a.metadata)))
            /\ Got(id).chunk_count = IF IsNone(a.chunk_count)
                                     THEN old.chunk_count
                                     ELSE Val(a.chunk_count)
            /\ Got(id).processing_time = IF IsNone(a.processing_time)
                                         THEN old.processing_time
                                         ELSE Val(a.processing_time)
            /\ Got(id).created_at = old.created_at
            /\ Got(id).start_time = old.start_time
            /\ Got(id).status = a.status
            /\ Got(id).updated_at = now
            /\ DOMAIN processes' = DOMAIN processes]_vars

\* a record that kept its result and its counters through a later update
\* that supplied only an error
C19_Witness ==
    \E id \in StoreIds :
        /\ HasRecord(processes, id)
        /\ processes[id].status = "FAILED"
        /\ processes[id].error = Some(<<"boom">>)
        /\ ~IsNone(processes[id].result)
        /\ processes[id].chunk_count = 3
        /\ processes[id].updated_at > processes[id].created_at

\* C20: an update_process(id, COMPLETED, ...) on a record that is already
\* COMPLETED, supplying neither result nor error, changes neither the
\* status nor the result nor the end_time of the record.
C20_ReupdateKeepsEndTime ==
    [][\A id \in StoreIds : \A a \in ClockUpdates :
         (/\ Updates(id, a)
          /\ processes[id].status = "COMPLETED"
          /\ a.status = "COMPLETED"
          /\ IsNone(a.result) /\ IsNone(a.error))
         => /\ Got(id).status = processes[id].status
            /\ Got(id).result = Val(GetProcess(processes, id)).result
            /\ Got(id).end_time = processes[id].end_time]_vars

\* C21 (as claimed): every job record that process_transcript_background
\* has brought to a terminal status (its completed-status or failed-status
\* update_process took effect) has a non-null end_time, stamped by that
\* update.
C21_TerminalWriteStampsEndTime ==
    \A id \in ProcIds :
        (/\ WroteTerminal(id)
         /\ HasRecord(processes, id)
         /\ IsTerminal(processes[id].status))
        => ~IsNone(processes[id].end_time)

-----------------------------------------------------------------------------
(* Polling a finished job *)

\* the step is a get_summary call for id that the store answered
PollAnswered(id) ==
    /\ lastPoll'[id] # lastPoll[id]
    /\ Val(lastPoll'[id]) # InternalErrorResponse

\* C22 (as claimed): a poll of a job whose record is FAILED with the stored
\* error message M returns status error, the error field M and data null.
C22_FailedPollReturnsStoredMessage ==
    [][\A id \in ProcIds :
         (/\ PollAnswered(id)
          /\ HasRecord(processes, id)
          /\ Lower(processes[id].status) = "failed"
          /\ ~IsNone(processes[id].error))
         => /\ Val(lastPoll'[id]).status = "error"
            /\ Val(lastPoll'[id]).error = processes[id].error
            /\ IsNone(Val(lastPoll'[id]).data)]_vars

\* the completed-status update_process of the task of id took effect
WroteCompleted(id) ==
    \E n \in DOMAIN task[id].writes :
        task[id].writes[n].ok /\ task[id].writes[n].status = "completed"

\* C23: once process_transcript_background has stored the aggregate summary
\* S with the completed status, every poll of the job that the store
\* answers returns 200, status completed, data equal to S and meetingName
\* equal to S.MeetingName: json.dumps by the task and again by
\* update_process is undone by the two json.loads of get_summary.
C23_StoredSummaryIsReturnedVerbatim ==
    [][\A id \in JobIds :
         (PollAnswered(id) /\ WroteCompleted(id))
         => LET S == task[id].final_summary IN
            /\ processes[id].result = Some(JsonDumps(JsonDumps(JDict(S))))
            /\ Val(lastPoll'[id]).code = 200
            /\ Val(lastPoll'[id]).status = "completed"
            /\ Val(lastPoll'[id]).data = Some(JDict(S))
            /\ Val(lastPoll'[id]).meetingName = Some(S.MeetingName)
            /\ IsNone(Val(lastPoll'[id]).error)]_vars

\* a completed job with a named, non-empty aggregate was polled
C23_Witness ==
    \E id \in JobIds :
        /\ WroteCompleted(id)
        /\ task[id].final_summary.MeetingName # ""
        /\ \E key \in SectionKeys :
             Len(task[id].final_summary.sections[key].blocks) >= 2
        /\ ~IsNone(lastPoll[id])
        /\ Val(lastPoll[id]).code = 200
        /\ Val(lastPoll[id]).data = Some(JDict(task[id].final_summary))

\* C24: for an id without a job record get_process and get_transcript_data
\* return None, and every poll of such an id that the store answered is the
\* not-found envelope: 404, status error, error "Process ID not found",
\* data null.
C24_UnknownIdIsNotFound ==
    /\ [](\A id \in ProcIds :
            ~HasRecord(processes, id)
            => /\ IsNone(GetProcess(processes, id))
               /\ IsNone(GetTranscriptData(processes, transcripts, id)))
    /\ [][\A id \in ProcIds :
            (PollAnswered(id) /\ ~HasRecord(processes, id))
            => /\ lastPoll'[id] = Some(NotFoundResponse)
               /\ Val(lastPoll'[id]).status = "error"
               /\ Val(lastPoll'[id]).error = Some(<<"Process ID not found">>)
               /\ IsNone(Val(lastPoll'[id]).data)]_vars

\* an id that has a transcript row but no job record was polled
C24_Witness ==
    \E id \in ProcIds :
        /\ ~HasRecord(processes, id)
        /\ id \in DOMAIN transcripts
        /\ lastPoll[id] = Some(NotFoundResponse)

\* C25 (as claimed): once the task of a job has split the transcript into
\* N chunks and has finished, the job record's chunk_count is N.
C25_ChunkCountIsRecorded ==
    \A id \in JobIds :
        (/\ task[id].pc = "done"
         /\ WroteCompleted(id)
         /\ HasRecord(processes, id))
        => processes[id].chunk_count = task[id].num_chunks

C27_EndTimeOnlyWhenTerminal ==
    \A id \in ProcIds :
        HasRecord(processes, id)
        => /\ processes[id].status = "PENDING"
                => IsNone(processes[id].end_time)
           /\ ~IsNone(processes[id].end_time)
                => IsTerminal(processes[id].status)

-----------------------------------------------------------------------------
(* Order of the model calls *)

\* the chunk indices of the calls that returned a summary, in call order
SummarizedChunks(calls) ==
    SelectSeq([n \in DOMAIN calls |-> IF calls[n].kind = "summary"
                                      THEN calls[n].chunk ELSE 0],
              LAMBDA c : c # 0)

\* C28: within one job the model calls are made one after the other in
\* chunking order: the call for a chunk is made only when the calls for all
\* earlier chunks have returned or raised, and the chunk results handed to
\* the aggregation are those of the chunks that returned a summary, by
\* increasing chunk index.
C28_ChunksSummarizedInOrder ==
    /\ [](\A id \in JobIds :
            LET calls == task[id].calls
                from == SummarizedChunks(calls)
            IN /\ \A n \in DOMAIN calls :
                    calls[n].chunk = n /\ n <= task[id].num_chunks
               /\ task[id].pc = "chunk" => task[id].i = Len(calls) + 1
               /\ Len(task[id].all_json_data) = Len(from)
               /\ \A m \in DOMAIN from :
                    /\ task[id].all_json_data[m]
                         = JsonDumps(JDict(Val(calls[from[m]].result)))
                    /\ m > 1 => from[m - 1] < from[m])
    /\ [][\A id \in JobIds :
            task'[id].calls # task[id].calls
            => /\ task[id].pc = "chunk"
               /\ Len(task'[id].calls) = Len(task[id].calls) + 1
               /\ SubSeq(task'[id].calls, 1, Len(task[id].calls))
                    = task[id].calls
               /\ task'[id].calls[Len(task'[id].calls)].chunk
                    = Len(task[id].calls) + 1]_vars

\* a job of three chunks whose first and third call returned different
\* summaries and whose second call raised
C28_Witness ==
    \E id \in JobIds :
        /\ task[id].pc = "aggregate"
        /\ task[id].num_chunks = 3
        /\ SummarizedChunks(task[id].calls) = <<1, 3>>
        /\ task[id].calls[2].kind = "transport"
        /\ task[id].calls[1].result # task[id].calls[3].result
        /\ Len(task[id].all_json_data) = 2

-----------------------------------------------------------------------------
(* Independence of jobs *)

\* the aggregate process_transcript_background builds from a list of chunk
\* results when nothing else runs
RECURSIVE AggregateOf(_, _)
AggregateOf(final, jsons) ==
    IF jsons = <<>> THEN final
    ELSE AggregateOf(AggregateChunk(final, Head(jsons)), Tail(jsons))

\* the blocks of all sections of a summary
BlocksOf(summary) ==
    UNION {{summary.sections[key].blocks[n] :
              n \in DOMAIN summary.sections[key].blocks} : key \in SectionKeys}

\* the last update_process call of the task of id took effect with status
TaskWrote(id, status) ==
    /\ task[id].writes # <<>>
    /\ task[id].writes[Len(task[id].writes)].ok
    /\ task[id].writes[Len(task[id].writes)].status = status

\* C29: two jobs with different process ids are independent under every
\* interleaving of their tasks: the chunk results, the aggregate and the
\* meeting name of a job come from its own model calls only, and when its
\* task has ended its record (status, result, error) is the one determined
\* by its own request, its own model calls and the outcomes of its own
\* store calls, as if it had run alone.
C29_JobsAreIndependent ==
    \A id \in ProcIds :
        LET own == SurvivingResults(task[id].calls)
            alone == AggregateOf(EmptySummary, own)
        IN /\ task[id].all_json_data = own
           /\ task[id].final_summary
                = AggregateOf(EmptySummary, Aggregated(id))
           /\ \A other \in ProcIds \ {id} :
                /\ BlocksOf(task[id].final_summary)
                     \cap BlocksOf(JobSummary(other)) = {}
                /\ task[id].final_summary.MeetingName
                     # JobSummary(other).MeetingName
                /\ id \in DOMAIN transcripts
                     => transcripts[id].meeting_name
                          # Some(JobSummary(other).MeetingName)
           /\ task[id].pc = "done"
                => /\ HasRecord(processes, id)
                   /\ IF TaskWrote(id, "completed")
                      THEN /\ processes[id].status = "completed"
                           /\ processes[id].result
                                = Some(JsonDumps(JsonDumps(JDict(alone))))
                           /\ IsNone(processes[id].error)
                      ELSE IF TaskWrote(id, "failed")
                      THEN /\ processes[id].status = "failed"
                           /\ processes[id].error
                                = Some(task[id].raised[1].msg)
                           /\ IsNone(processes[id].result)
                      ELSE /\ processes[id].status = "PENDING"
                           /\ IsNone(processes[id].error)
                           /\ IsNone(processes[id].result)

\* the first job has ended completed with the blocks of its two chunks
\* while the task of the second, with one chunk result of its own, is about
\* to write
C29_Witness ==
    /\ task["p1"].pc = "done"
    /\ processes["p1"].status = "completed"
    /\ task["p1"].final_summary.sections["SectionSummary"].blocks
         = <<"b1", "b1">>
    /\ task["p2"].pc = "completed_write"
    /\ task["p2"].final_summary.sections["SectionSummary"].blocks = <<"b2">>
    /\ task["p2"].final_summary.MeetingName = "Retro"
    /\ processes["p2"].status = "PENDING"

-----------------------------------------------------------------------------
(* The terminal write *)

\* the update_process calls of the task of id that took effect
EffectiveWrites(id) ==
    {n \in DOMAIN task[id].writes : task[id].writes[n].ok}

\* C30: within one background task the terminal write is the last mutation
\* of the job's rows: once an update_process with the completed or the
\* failed status has taken effect, the task is over, it issues no further
\* store call and the rows of the job stay as they are; no task has both a
\* completed and a failed write take effect.
C30_TerminalWriteIsLast ==
    /\ [](\A id \in JobIds :
            /\ Cardinality(EffectiveWrites(id)) <= 1
            /\ EffectiveWrites(id) \subseteq {Len(task[id].writes)}
            /\ WroteTerminal(id) => task[id].pc = "done")
    /\ [][\A id \in JobIds :
            WroteTerminal(id)
            => /\ task'[id].writes = task[id].writes
               /\ task'[id].pc = "done"
               /\ processes'[id] = processes[id]
               /\ transcripts'[id] = transcripts[id]]_vars

\* a task that renamed the meeting, whose completed-status write raised and
\* whose failed-status write took effect, has been polled afterwards
C30_Witness ==
    \E id \in JobIds :
        /\ task[id].pc = "done"
        /\ ~IsNone(transcripts[id].meeting_name)
        /\ Len(task[id].writes) = 2
        /\ task[id].writes[1].status = "completed" /\ ~task[id].writes[1].ok
        /\ task[id].writes[2].status = "failed" /\ task[id].writes[2].ok
        /\ processes[id].status = "failed"
        /\ ~IsNone(lastPoll[id])
        /\ Val(lastPoll[id]).code = 400

-----------------------------------------------------------------------------
(* Window lengths *)

\* the request of the task of id has chunk_size > 0 and
\* 0 <= overlap < chunk_size, and its text has been split
SplitWithValidParameters(id) ==
    /\ HasSplit(id)
    /\ Val(task[id].transcript).chunk_size > 0
    /\ Val(task[id].transcript).overlap >= 0
    /\ Val(task[id].transcript).overlap < Val(task[id].transcript).chunk_size

\* C34 (as claimed): for chunk_size > 0 and 0 <= overlap < chunk_size every
\* window other than the last has length exactly chunk_size, and every
\* window is non-empty.
C34_OnlyFinalWindowShorter ==
    \A id \in JobIds :
        SplitWithValidParameters(id)
        => \A k \in DOMAIN task[id].chunks :
             /\ Len(task[id].chunks[k]) >= 1
             /\ k < Len(task[id].chunks)
                  => Len(task[id].chunks[k])
                       = Val(task[id].transcript).chunk_size

\* C34 (amended): every window is non-empty and window k (from 0) has
\* length min(chunk_size, len(text) - k*step), for every k with
\* k*step < len(text): the windows that start after len(text) - chunk_size
\* are shorter than chunk_size, and the last of them ends the text.  There
\* can be several of them when overlap > 0; with overlap = 0 only the final
\* window can be shorter.
C34_WindowsAreClippedAtTheEnd ==
    \A id \in JobIds :
        LET req == Val(task[id].transcript)
            step == req.chunk_size - req.overlap
            chunks == task[id].chunks
        IN SplitWithValidParameters(id)
           => /\ Len(chunks) = CeilDiv(Len(req.text), step)
              /\ \A k \in DOMAIN chunks :
                   /\ Len(chunks[k]) >= 1
                   /\ Len(chunks[k])
                        = Min(req.chunk_size, Len(req.text) - (k - 1) * step)
                   /\ (req.overlap = 0 /\ k < Len(chunks))
                        => Len(chunks[k]) = req.chunk_size

\* a text of three characters split with chunk_size 3 and overlap 2: the
\* second of its three windows is already shorter than chunk_size
C34_Witness ==
    \E id \in JobIds :
        /\ SplitWithValidParameters(id)
        /\ Val(task[id].transcript).chunk_size = 3
        /\ Val(task[id].transcript).overlap = 2
        /\ Len(task[id].chunks) = 3
        /\ Len(task[id].chunks[2]) = 2

-----------------------------------------------------------------------------
(* A job all of whose chunks fail *)

\* the chunk loop of the task of id is over and no model call gave a summary
AllChunksFailed(id) ==
    /\ ChunkLoopLeft(id)
    /\ Len(task[id].calls) = task[id].num_chunks
    /\ \A n \in DOMAIN task[id].calls : task[id].calls[n].kind # "summary"

\* C35: when the summarization of every chunk of a job fails, the aggregate
\* stays the empty one (seven sections without blocks, empty MeetingName),
\* update_meeting_name is not called, with a working store the job is
\* recorded as completed with that aggregate as its result, and every poll
\* the store answers then reports completed with the empty aggregate.
C35_AllChunksFailedStillCompleted ==
    /\ [](\A id \in JobIds :
            AllChunksFailed(id)
            => /\ task[id].all_json_data = <<>>
               /\ task[id].final_summary = EmptySummary
               /\ task[id].pc # "name_write"
               /\ IsNone(transcripts[id].meeting_name)
               /\ \A n \in DOMAIN task[id].raised :
                    task[id].raised[n].msg = StoreError
               /\ \A w \in WrittenSummaries(id) : w = EmptySummary
               /\ (task[id].pc = "done" /\ StoreWorked(id))
                    => /\ processes[id].status = "completed"
                       /\ processes[id].result
                            = Some(JsonDumps(JsonDumps(JDict(EmptySummary))))
                       /\ IsNone(processes[id].error))
    /\ [][\A id \in JobIds :
            (AllChunksFailed(id) /\ WroteCompleted(id) /\ PollAnswered(id))
            => /\ Val(lastPoll'[id]).code = 200
               /\ Val(lastPoll'[id]).status = "completed"
               /\ Val(lastPoll'[id]).data = Some(JDict(EmptySummary))]_vars

\* a job of three chunks, each failing in its own way, was recorded as
\* completed and polled
C35_Witness ==
    \E id \in JobIds :
        /\ AllChunksFailed(id)
        /\ task[id].num_chunks = 3
        /\ task[id].calls[1].kind = "malformed"
        /\ task[id].calls[2].kind = "transport"
        /\ task[id].calls[3].kind = "unexpected"
        /\ processes[id].status = "completed"
        /\ ~IsNone(lastPoll[id])
        /\ Val(lastPoll[id]).status = "completed"
        /\ Val(lastPoll[id]).data = Some(JDict(EmptySummary))

-----------------------------------------------------------------------------
(* Creating a job whose id has a record *)

\* the step is create_process(id) for an id that has a record
Recreates(id) == HasRecord(processes, id) /\ CreateProcess(id)

\* C36: create_process on an id that has a job record, whatever the status
\* of that record, leaves one record for the id with status PENDING, no
\* result, no error and start_time = updated_at = the time of the call;
\* created_at, chunk_count, processing_time and metadata keep their values.
C36_RecreateResetsInPlace ==
    [][\A id \in StoreIds :
         Recreates(id)
         => /\ DOMAIN processes' = DOMAIN processes
            /\ processes'[id].status = "PENDING"
            /\ IsNone(processes'[id].result)
            /\ IsNone(processes'[id].error)
            /\ processes'[id].start_time = Some(now)
            /\ processes'[id].updated_at = now
            /\ processes'[id].created_at = processes[id].created_at
            /\ processes'[id].chunk_count = processes[id].chunk_count
            /\ processes'[id].processing_time = processes[id].processing_time
            /\ processes'[id].metadata = processes[id].metadata
            /\ Got(id).chunk_count = processes[id].chunk_count
            /\ Got(id).metadata = Val(GetProcess(processes, id)).metadata]_vars

\* a record with a chunk count, a processing time and metadata that was
\* completed and then created again at a later time
C36_Witness ==
    \E id \in StoreIds :
        /\ HasRecord(processes, id)
        /\ processes[id].status = "PENDING"
        /\ processes[id].chunk_count = 3
        /\ processes[id].processing_time = 2
        /\ ~IsNone(processes[id].metadata)
        /\ ~IsNone(processes[id].end_time)
        /\ IsNone(processes[id].result)
        /\ processes[id].created_at < processes[id].updated_at

-----------------------------------------------------------------------------
(* The retention sweep *)

\* the records cleanup_old_processes(hours) has to delete
OlderThan(hours) ==
    {id \in DOMAIN processes : processes[id].created_at < now - hours}

\* the step is an update_process call of the task of id that returned
TaskWriteReturned(id) ==
    /\ Len(task'[id].writes) = Len(task[id].writes) + 1
    /\ task'[id].writes[Len(task'[id].writes)].ok

\* C37: cleanup_old_processes(hours) deletes exactly the job records whose
\* created_at is earlier than now - hours, whatever their status, and leaves
\* every other job record and every transcript as it is; a terminal
\* update_process that the task of a purged job issues afterwards returns
\* without an error and creates no record.
C37_SweepDeletesByCreationTime ==
    /\ [][\A hours \in CleanupHours :
            CleanupOldProcesses(hours)
            => /\ DOMAIN processes' = DOMAIN processes \ OlderThan(hours)
               /\ \A id \in DOMAIN processes' :
                    processes'[id] = processes[id]
               /\ transcripts' = transcripts
               /\ task' = task]_vars
    /\ [][\A id \in JobIds :
            (~HasRecord(processes, id) /\ task[id].pc \in {"completed_write",
                                                          "failed_write"})
            => /\ ENABLED WriteCompleted(id, FALSE)
                    \/ ENABLED WriteFailed(id, FALSE)
               /\ TaskWriteReturned(id)
                    => /\ processes' = processes
                       /\ task'[id].pc = "done"
                       /\ task'[id].raised = task[id].raised]_vars

\* the record of a running job was purged while PENDING, its task then wrote
\* completed, and a younger record of another id, itself completed, is kept
C37_Witness ==
    /\ ~HasRecord(processes, "p1")
    /\ "p1" \in DOMAIN transcripts
    /\ task["p1"].pc = "done"
    /\ WroteCompleted("p1")
    /\ HasRecord(processes, "p2")
    /\ processes["p2"].status = "COMPLETED"
    /\ processes["p2"].created_at < now

-----------------------------------------------------------------------------
(* The two repairs of the chunk parameters *)

\* the windows of a call that goes through SummaryProcessor.process_transcript
WindowsThroughSummaryProcessor(req) ==
    SplitChunks(req.text,
                RepairedChunkSize(req.chunk_size, req.overlap),
                RepairedOverlap(req.chunk_size, req.overlap))

\* the windows of a direct call of TranscriptProcessor.process_transcript
WindowsOfDirectCall(req) ==
    SplitChunks(req.text, req.chunk_size, req.overlap)

\* C38 (as claimed): for every text, chunk_size > 0 and overlap >= 0 a
\* direct call of TranscriptProcessor.process_transcript produces the same
\* windows as a call through SummaryProcessor.process_transcript.
C38_RepairsAgree ==
    \A id \in JobIds :
        LET req == Val(task[id].transcript) IN
        (HasSplit(id) /\ req.chunk_size > 0 /\ req.overlap >= 0)
        => /\ task[id].chunks = WindowsOfDirectCall(req)
           /\ task[id].chunks = WindowsThroughSummaryProcessor(req)

-----------------------------------------------------------------------------
(* C33: what summarize() returns *)

\* the number of words of a text: len(text.split())
WordCount(t) == Len(Split(t))

\* C33: summarize returns "" for an empty text and text.strip() for a text
\* whose stripped length is below 100 characters; for every longer text a
\* result that is not None is strictly shorter than the input in characters
\* and in words, for the mock service and for the real one with its
\* fallback.
C33_SummaryIsShorter ==
    ~IsNone(summarized) =>
        LET text == Val(summarized).text
            result == Val(summarized).result
        IN  /\ TextLen(text) = 0 => result = Some(EmptyText)
            /\ TextLen(Strip(text)) < ShortTextLimit
                   => result = Some(Strip(text))
            /\ (TextLen(Strip(text)) >= ShortTextLimit /\ ~IsNone(result))
                   => /\ TextLen(Val(result)) < TextLen(text)
                      /\ WordCount(Val(result)) < WordCount(text)

-----------------------------------------------------------------------------
(* C31: the life of a recording session in MockAudioService *)

\* C31: after start_recording returns s, is_recording(s) is true and stays
\* true across add_audio_chunk calls until stop_recording(s); stop_recording
\* of an active session s ends with is_recording(s) false and s recorded as
\* completed; no session is both active and completed, and a completed
\* session never becomes active again.
C31_SessionLifecycle ==
    /\ [][\A s \in SessionIds :
            /\ MockStartRecording(s) => MockIsRecording(mockAudio', s)
            /\ (MockIsRecording(mockAudio, s) /\ ~MockStopRecording(s))
                   => MockIsRecording(mockAudio', s)
            /\ (MockIsRecording(mockAudio, s) /\ MockStopRecording(s))
                   => /\ ~MockIsRecording(mockAudio', s)
                      /\ s \in mockAudio'.completed_recordings
            /\ s \in mockAudio.completed_recordings
                   => ~MockIsRecording(mockAudio', s)]_vars
    /\ [](\A s \in SessionIds :
            ~(MockIsRecording(mockAudio, s)
              /\ s \in mockAudio.completed_recordings))

-----------------------------------------------------------------------------
(* C39: the recording threads and stop_recording *)

\* C39: once stop_recording(s) has emptied the queues and ended, by
\* returning or by raising, no recording thread of s is still running;
\* the flag and the queues of a session are never removed while one of its
\* threads is alive; no frame is put into a queue after stop_recording
\* emptied it.
C39_NoThreadOutlivesStop ==
    \A s \in SessionIds, src \in Sources :
        /\ (HasEnded(stopCall[s]) /\ stopCall[s].drained)
               => ~IsAlive(recorder[s][src])
        /\ IsAlive(recorder[s][src])
               => /\ s \in DOMAIN audio.stop_flags
                  /\ s \in DOMAIN audio.recording_queues
        /\ ~recorder[s][src].put_after_drain

-----------------------------------------------------------------------------
(* C32: stop_recording of an unknown or an already stopped session *)

\* session_id was never returned by AudioService.start_recording
NeverStarted(session_id) ==
    /\ \A src \in Sources : recorder[session_id][src].pc = "none"
    /\ session_id \notin DOMAIN audio.recording_threads
    /\ session_id \notin audio.completed_recordings

\* session_id was never returned by MockAudioService.start_recording
MockNeverStarted(session_id) ==
    /\ session_id \notin DOMAIN mockAudio.recordings
    /\ session_id \notin mockAudio.completed_recordings

\* the state of the mock service, without the record of its last call
MockState(mock) ==
    <<mock.recordings, mock.completed_recordings, mock.files>>

\* C32: stop_recording of a session id that was never started raises the
\* not-found error and changes no state of the service; stop_recording of
\* a session that was stopped successfully returns without error and
\* changes no state; in AudioService and in MockAudioService.
C32_StopOfUnknownOrStoppedSession ==
    [][\A s \in SessionIds :
         /\ (StopRecording(s) /\ NeverStarted(s))
                => /\ stopCall'[s].pc = "raised"
                   /\ stopCall'[s].raised = Some(SessionNotFound(s))
                   /\ audio' = audio
                   /\ recorder' = recorder
         /\ (StopRecording(s) /\ s \in audio.completed_recordings)
                => /\ stopCall'[s].pc = "returned"
                   /\ IsNone(stopCall'[s].raised)
                   /\ audio' = audio
                   /\ recorder' = recorder
         /\ (MockStopRecording(s) /\ MockNeverStarted(s))
                => /\ Val(mockAudio'.last).raised = Some(SessionNotFound(s))
                   /\ MockState(mockAudio') = MockState(mockAudio)
         /\ (MockStopRecording(s) /\ s \in mockAudio.completed_recordings)
                => /\ IsNone(Val(mockAudio'.last).raised)
                   /\ MockState(mockAudio') = MockState(mockAudio)]_vars

\* a session of AudioService was stopped successfully and stopped again,
\* and an id never started was stopped in both services
C32_Witness ==
    /\ "s1" \in audio.completed_recordings
    /\ stopCall["s1"].pc = "returned"
    /\ ~stopCall["s1"].drained
    /\ NeverStarted("s2")
    /\ stopCall["s2"].raised = Some(SessionNotFound("s2"))
    /\ MockNeverStarted("s2")
    /\ mockAudio.recordings # <<>>
    /\ mockAudio.last
         = MockCall("stop_recording", "s2", Some(SessionNotFound("s2")))

=============================================================================
